---- MODULE Spec2Model ----
(***************************************************************************)
(* CorporateGovernance: board resolutions with confidential weighted       *)
(* votes, a Gateway decryption callback and a decryption timeout.          *)
(*                                                                         *)
(* The contract state is a set of variables; every external function of    *)
(* the contract is an operator from (state, arguments) to (state, result), *)
(* and every action of the model is one whole transaction: it either       *)
(* installs the new state with result "ok" or reverts (state unchanged)    *)
(* with the error it failed on.                                            *)
(* An encrypted accumulator is modelled by the plaintext it encrypts; only *)
(* the Gateway's decryption reads it.                                      *)
(***************************************************************************)
EXTENDS Integers, Sequences, FiniteSets, TLC

\* ------------------------------------------------------------------ bounds
NumAddr == 5
NumActors == 3
MaxResolutions == 2
MaxTicks == 2

\* ------------------------------------------------------- program constants
DECRYPTION_TIMEOUT == 86400
VOTING_DURATION == 604800
MIN_LENGTH == 1
MAX_LENGTH == 1000
MAX_VOTING_POWER == 1000
CHAIR_VOTING_POWER == 1
DEFAULT_VOTING_POWER == 1

\* -------------------------------------------------------------- identities
ZeroAddress == 0
chairperson == 1
Addr == 1..NumAddr
Gateway == NumAddr + 1
VARIABLES
    boardMembers,            \* address -> BoardMember
    totalVotingPower,        \* running sum of the active members' votingPower
    resolutionCount,         \* next resolution id
    resolutions,             \* id -> Resolution
    ballots,                 \* id -> address -> the member's stored weighted vote
    resolutionIdByRequestId, \* Gateway request id -> resolution id
    gatewayRequests,         \* the Gateway's log: request id + 1 -> what was sent
    locked,                  \* the reentrancy flag
    finalizedBy,             \* history: id -> which transition resolved it
    now,                     \* block.timestamp
    twin,                    \* the second execution of a paired run
    unvoted,                 \* the execution in which the observed member cast no vote
    fhevmClient,             \* one FhevmClient and the init() calls made on it
    fhevmProvider            \* the state of FhevmProvider and its effects

vars == <<boardMembers, totalVotingPower, resolutionCount, resolutions, ballots,
          resolutionIdByRequestId, gatewayRequests, locked, finalizedBy, now,
          twin, unvoted, fhevmClient, fhevmProvider>>

\* ------------------------------------------------------------ the SDK
MaxInitCalls == 3
MaxConfigs == 4

\* null
Null == 0

\* new FhevmClient(config): no instance, not initialized; no init() called.
NewFhevmClient ==
    [instance |-> Null,
     initialized |-> FALSE,
     created |-> 0,
     calls |-> [k \in 1..MaxInitCalls |-> [pc |-> "idle", made |-> Null]]]

\* The run of the effect for a config: its mounted flag and where its
\* initialize() stands.
NewEffect(config) == [config |-> config, mounted |-> TRUE, pc |-> "init"]

\* FhevmProvider after its first render with the first config: the useState
\* defaults, and the effect of the first config started.
FirstRender ==
    [client |-> Null,
     instance |-> Null,
     isInitialized |-> FALSE,
     error |-> Null,
     config |-> 1,
     rendered |-> TRUE,
     staleUpdate |-> FALSE,
     effects |-> <<NewEffect(1)>>]

\* The contract state as one value.
Contract ==
    [boardMembers |-> boardMembers,
     totalVotingPower |-> totalVotingPower,
     resolutionCount |-> resolutionCount,
     resolutions |-> resolutions,
     ballots |-> ballots,
     resolutionIdByRequestId |-> resolutionIdByRequestId,
     gatewayRequests |-> gatewayRequests,
     locked |-> locked,
     finalizedBy |-> finalizedBy]

Install(c) ==
    /\ boardMembers' = c.boardMembers
    /\ totalVotingPower' = c.totalVotingPower
    /\ resolutionCount' = c.resolutionCount
    /\ resolutions' = c.resolutions
    /\ ballots' = c.ballots
    /\ resolutionIdByRequestId' = c.resolutionIdByRequestId
    /\ gatewayRequests' = c.gatewayRequests
    /\ locked' = c.locked
    /\ finalizedBy' = c.finalizedBy

\* ------------------------------------------------------------- data model
NoMember == [isActive |-> FALSE, votingPower |-> 0]

NoBallot == [cast |-> FALSE, yes |-> 0, no |-> 0]

NewResolution(id, creator, quorum, t) ==
    [id |-> id,
     startTime |-> t,
     endTime |-> t + VOTING_DURATION,
     active |-> TRUE,
     yesVotes |-> 0,
     noVotes |-> 0,
     creator |-> creator,
     requiredQuorum |-> quorum,
     decryptionRequested |-> FALSE,
     decryptionRequestTime |-> 0,
     decryptionRequestId |-> 0,
     resolved |-> FALSE,
     revealedYesVotes |-> 0,
     revealedNoVotes |-> 0]

\* The contract right after construction: the deployer is the chairperson and
\* the first active board member.
Deployed ==
    [boardMembers |->
        [a \in Addr |->
            IF a = chairperson
            THEN [isActive |-> TRUE, votingPower |-> CHAIR_VOTING_POWER]
            ELSE NoMember],
     totalVotingPower |-> CHAIR_VOTING_POWER,
     resolutionCount |-> 0,
     resolutions |-> <<>>,
     ballots |-> <<>>,
     resolutionIdByRequestId |-> <<>>,
     gatewayRequests |-> <<>>,
     locked |-> FALSE,
     finalizedBy |-> <<>>]

\* ------------------------------------------------------ results of a call
Fail(c, e) == [state |-> c, result |-> e]

Ok(c) == [state |-> c, result |-> "ok"]

ValidationErrors ==
    {"InvalidStringLength", "InvalidAddress", "InvalidWeight", "DuplicateMember",
     "QuorumZero", "QuorumExceedsPower", "InvalidProof"}

AuthorizationErrors ==
    {"OnlyChairperson", "UnauthorizedCallback", "NotCreatorOrChairperson",
     "VotingNotEnded", "UnknownMember", "ZeroWeight"}

StateErrors ==
    {"ResolutionNotActive", "VotingWindowClosed", "RevealAlreadyRequested",
     "DecryptionNotRequested", "AlreadyResolved", "TimeoutNotReached",
     "Reentrancy"}

NotFoundErrors == {"NotFound", "ResolutionDoesNotExist", "UnknownRequest"}

Errors ==
    ValidationErrors \cup AuthorizationErrors \cup StateErrors \cup NotFoundErrors

\* ------------------------------------------------------------- modifiers
\* validString: bytes(_str).length > 0 && bytes(_str).length <= 1000.
validStringNonEmpty(len) == len >= MIN_LENGTH

validString(len) == len >= MIN_LENGTH /\ len <= MAX_LENGTH

\* nonReentrant around a body already evaluated on the locked state: the flag
\* is released on exit, and a revert restores the state of entry.
nonReentrantNoRollback(c, out) ==
    IF c.locked THEN Fail(c, "Reentrancy")
    ELSE IF out.result = "ok"
         THEN Ok([out.state EXCEPT !.locked = FALSE])
         ELSE Fail([out.state EXCEPT !.locked = FALSE], out.result)

nonReentrantStuck(c, out) ==
    IF c.locked THEN Fail(c, "Reentrancy")
    ELSE IF out.result = "ok"
         THEN Ok([out.state EXCEPT !.locked = FALSE])
         ELSE Fail([c EXCEPT !.locked = TRUE], out.result)

nonReentrant(c, out) ==
    IF c.locked THEN Fail(c, "Reentrancy")
    ELSE IF out.result = "ok"
         THEN Ok([out.state EXCEPT !.locked = FALSE])
         ELSE Fail(c, out.result)

Lock(c) == [c EXCEPT !.locked = TRUE]

\* ----------------------------------------------------- membership registry
IsKnown(c, a) == a \in Addr /\ c.boardMembers[a].votingPower > 0

weightOfStored(c, a) ==
    IF a \in Addr THEN c.boardMembers[a].votingPower ELSE 0

\* weightOf: 0 for unknown and inactive identities.
weightOf(c, a) ==
    IF a \in Addr /\ c.boardMembers[a].isActive
    THEN c.boardMembers[a].votingPower
    ELSE 0

getTotalVotingPower(c) == c.totalVotingPower

Activate(c, a, power) ==
    [c EXCEPT !.boardMembers[a] = [isActive |-> TRUE, votingPower |-> power],
              !.totalVotingPower = @ + power]

\* onlyChairperson: member management is the chairperson's.
onlyAnyone(caller) == TRUE

onlyChairperson(caller) == caller = chairperson

\* "Voting power out of range": the voting power must be between 1 and 1000.
validVotingPowerOrZero(power) == power <= MAX_VOTING_POWER

validVotingPower(power) == power >= 1 /\ power <= MAX_VOTING_POWER

addBoardMemberBodyKnownDuplicate(c, caller, member, nameLen, positionLen, power) ==
    IF ~onlyChairperson(caller) THEN Fail(c, "OnlyChairperson")
    ELSE IF member = ZeroAddress THEN Fail(c, "InvalidAddress")
    ELSE IF ~(validString(nameLen) /\ validString(positionLen))
        THEN Fail(c, "InvalidStringLength")
    ELSE IF ~validVotingPower(power) THEN Fail(c, "InvalidWeight")
    ELSE IF IsKnown(c, member) THEN Fail(c, "DuplicateMember")
    ELSE Ok(Activate(c, member, power))

addBoardMemberBody(c, caller, member, nameLen, positionLen, power) ==
    IF ~onlyChairperson(caller) THEN Fail(c, "OnlyChairperson")
    ELSE IF member = ZeroAddress THEN Fail(c, "InvalidAddress")
    ELSE IF ~(validString(nameLen) /\ validString(positionLen))
        THEN Fail(c, "InvalidStringLength")
    ELSE IF ~validVotingPower(power) THEN Fail(c, "InvalidWeight")
    ELSE IF c.boardMembers[member].isActive THEN Fail(c, "DuplicateMember")
    ELSE Ok(Activate(c, member, power))

addBoardMemberFn(c, caller, member, nameLen, positionLen, power) ==
    nonReentrant(c,
        addBoardMemberBody(Lock(c), caller, member, nameLen, positionLen, power))

removeBoardMemberBodyDeleting(c, caller, member) ==
    IF ~onlyChairperson(caller) THEN Fail(c, "OnlyChairperson")
    ELSE IF ~IsKnown(c, member) THEN Fail(c, "NotFound")
    ELSE IF ~c.boardMembers[member].isActive THEN Ok(c)
    ELSE Ok([c EXCEPT !.boardMembers[member] = NoMember,
                      !.totalVotingPower = @ - c.boardMembers[member].votingPower])

removeBoardMemberBody(c, caller, member) ==
    IF ~onlyChairperson(caller) THEN Fail(c, "OnlyChairperson")
    ELSE IF ~IsKnown(c, member) THEN Fail(c, "NotFound")
    ELSE IF ~c.boardMembers[member].isActive THEN Ok(c)
    ELSE Ok([c EXCEPT !.boardMembers[member].isActive = FALSE,
                      !.totalVotingPower = @ - c.boardMembers[member].votingPower])

removeBoardMemberFn(c, caller, member) ==
    nonReentrant(c, removeBoardMemberBody(Lock(c), caller, member))

ensureMemberUncounted(c, a) ==
    IF IsKnown(c, a) THEN c
    ELSE [c EXCEPT !.boardMembers[a] =
                        [isActive |-> TRUE, votingPower |-> DEFAULT_VOTING_POWER]]

ensureMemberAlways(c, a) == Activate(c, a, DEFAULT_VOTING_POWER)

ensureMemberReactivating(c, a) ==
    IF a \in Addr /\ c.boardMembers[a].isActive THEN c
    ELSE Activate(c, a, DEFAULT_VOTING_POWER)

\* The implicit self-registration of a first-time actor.
ensureMember(c, a) ==
    IF IsKnown(c, a) THEN c ELSE Activate(c, a, DEFAULT_VOTING_POWER)

\* ------------------------------------------------------- resolution opening
createResolutionBodyAnyQuorum(c, t, caller, titleLen, descriptionLen, quorum) ==
    IF ~(validString(titleLen) /\ validString(descriptionLen))
        THEN Fail(c, "InvalidStringLength")
    ELSE
    LET m == ensureMember(c, caller)
        id == m.resolutionCount
    IN  IF ~m.boardMembers[caller].isActive THEN Fail(c, "UnknownMember")
        ELSE IF quorum <= 0 THEN Fail(c, "QuorumZero")
        ELSE Ok([m EXCEPT
                !.resolutions = @ @@ (id :> NewResolution(id, caller, quorum, t)),
                !.ballots = @ @@ (id :> [a \in Addr |-> NoBallot]),
                !.finalizedBy = @ @@ (id :> "none"),
                !.resolutionCount = @ + 1])

createResolutionBodyFromOne(c, t, caller, titleLen, descriptionLen, quorum) ==
    IF ~(validString(titleLen) /\ validString(descriptionLen))
        THEN Fail(c, "InvalidStringLength")
    ELSE
    LET m == ensureMember(c, caller)
        id == m.resolutionCount + 1
    IN  IF ~m.boardMembers[caller].isActive THEN Fail(m, "UnknownMember")
        ELSE IF quorum <= 0 THEN Fail(m, "QuorumZero")
        ELSE IF quorum > m.totalVotingPower THEN Fail(m, "QuorumExceedsPower")
        ELSE Ok([m EXCEPT
                !.resolutions = @ @@ (id :> NewResolution(id, caller, quorum, t)),
                !.ballots = @ @@ (id :> [a \in Addr |-> NoBallot]),
                !.finalizedBy = @ @@ (id :> "none"),
                !.resolutionCount = @ + 1])

\* A requirement that fails after the self-registration fails with the state
\* reached so far; the revert of nonReentrant's caller discards it.
createResolutionBody(c, t, caller, titleLen, descriptionLen, quorum) ==
    IF ~(validString(titleLen) /\ validString(descriptionLen))
        THEN Fail(c, "InvalidStringLength")
    ELSE
    LET m == ensureMember(c, caller)
        id == m.resolutionCount
    IN  IF ~m.boardMembers[caller].isActive THEN Fail(m, "UnknownMember")
        ELSE IF quorum <= 0 THEN Fail(m, "QuorumZero")
        ELSE IF quorum > m.totalVotingPower THEN Fail(m, "QuorumExceedsPower")
        ELSE Ok([m EXCEPT
                !.resolutions = @ @@ (id :> NewResolution(id, caller, quorum, t)),
                !.ballots = @ @@ (id :> [a \in Addr |-> NoBallot]),
                !.finalizedBy = @ @@ (id :> "none"),
                !.resolutionCount = @ + 1])

createResolutionFn(c, t, caller, titleLen, descriptionLen, quorum) ==
    nonReentrant(c,
        createResolutionBody(Lock(c), t, caller, titleLen, descriptionLen, quorum))

\* --------------------------------------------------------- ballot aggregator
\* The weighted vote a member contributes: its weight on the side it chose.
WeightedVote(choice, weight) ==
    [cast |-> TRUE,
     yes |-> IF choice THEN weight ELSE 0,
     no |-> IF choice THEN 0 ELSE weight]

\* Replace the member's stored contribution by the new one: subtract the old
\* weighted value from each accumulator, add the new.
TallyAdding(r, old, new) ==
    [r EXCEPT !.yesVotes = @ + new.yes,
              !.noVotes = @ + new.no]

TallySubtractingNew(r, old, new) ==
    [r EXCEPT !.yesVotes = (@ - (IF old.yes > 0 THEN new.yes + new.no ELSE 0)) + new.yes,
              !.noVotes = (@ - (IF old.no > 0 THEN new.yes + new.no ELSE 0)) + new.no]

Tally(r, old, new) ==
    [r EXCEPT !.yesVotes = (@ - old.yes) + new.yes,
              !.noVotes = (@ - old.no) + new.no]

castVoteBodyAnyTime(c, t, caller, id, choice, proofOk) ==
    IF id \notin DOMAIN c.resolutions THEN Fail(c, "ResolutionDoesNotExist")
    ELSE
    LET m == ensureMember(c, caller)
        r == m.resolutions[id]
        w == weightOf(m, caller)
        new == WeightedVote(choice, w)
    IN  IF ~r.active THEN Fail(c, "ResolutionNotActive")
        ELSE IF ~IsKnown(m, caller) \/ ~m.boardMembers[caller].isActive
            THEN Fail(c, "UnknownMember")
        ELSE IF w = 0 THEN Fail(c, "ZeroWeight")
        ELSE IF ~proofOk THEN Fail(c, "InvalidProof")
        ELSE Ok([m EXCEPT
                !.resolutions[id] = Tally(r, m.ballots[id][caller], new),
                !.ballots[id][caller] = new])

castVoteBodySingleVote(c, t, caller, id, choice, proofOk) ==
    IF id \notin DOMAIN c.resolutions THEN Fail(c, "ResolutionDoesNotExist")
    ELSE
    LET m == ensureMember(c, caller)
        r == m.resolutions[id]
        w == weightOf(m, caller)
        new == WeightedVote(choice, w)
    IN  IF ~r.active THEN Fail(c, "ResolutionNotActive")
        ELSE IF t >= r.endTime THEN Fail(c, "VotingWindowClosed")
        ELSE IF ~IsKnown(m, caller) \/ ~m.boardMembers[caller].isActive
            THEN Fail(m, "UnknownMember")
        ELSE IF w = 0 THEN Fail(m, "ZeroWeight")
        ELSE IF ~proofOk THEN Fail(m, "InvalidProof")
        ELSE IF m.ballots[id][caller].cast THEN Fail(m, "AlreadyVoted")
        ELSE Ok([m EXCEPT
                !.resolutions[id] = Tally(r, m.ballots[id][caller], new),
                !.ballots[id][caller] = new])

castVoteBodyWhileUnresolved(c, t, caller, id, choice, proofOk) ==
    IF id \notin DOMAIN c.resolutions THEN Fail(c, "ResolutionDoesNotExist")
    ELSE
    LET m == ensureMember(c, caller)
        r == m.resolutions[id]
        w == weightOf(m, caller)
        new == WeightedVote(choice, w)
    IN  IF r.resolved THEN Fail(c, "ResolutionNotActive")
        ELSE IF t >= r.endTime THEN Fail(c, "VotingWindowClosed")
        ELSE IF ~IsKnown(m, caller) \/ ~m.boardMembers[caller].isActive
            THEN Fail(m, "UnknownMember")
        ELSE IF w = 0 THEN Fail(m, "ZeroWeight")
        ELSE IF ~proofOk THEN Fail(m, "InvalidProof")
        ELSE Ok([m EXCEPT
                !.resolutions[id] = Tally(r, m.ballots[id][caller], new),
                !.ballots[id][caller] = new])

castVoteBody(c, t, caller, id, choice, proofOk) ==
    IF id \notin DOMAIN c.resolutions THEN Fail(c, "ResolutionDoesNotExist")
    ELSE
    LET m == ensureMember(c, caller)
        r == m.resolutions[id]
        w == weightOf(m, caller)
        new == WeightedVote(choice, w)
    IN  IF ~r.active THEN Fail(c, "ResolutionNotActive")
        ELSE IF t >= r.endTime THEN Fail(c, "VotingWindowClosed")
        ELSE IF ~IsKnown(m, caller) \/ ~m.boardMembers[caller].isActive
            THEN Fail(m, "UnknownMember")
        ELSE IF w = 0 THEN Fail(m, "ZeroWeight")
        ELSE IF ~proofOk THEN Fail(m, "InvalidProof")
        ELSE Ok([m EXCEPT
                !.resolutions[id] = Tally(r, m.ballots[id][caller], new),
                !.ballots[id][caller] = new])

castVoteFn(c, t, caller, id, choice, proofOk) ==
    nonReentrant(c, castVoteBody(Lock(c), t, caller, id, choice, proofOk))

\* ------------------------------------------------------ reveal request
\* Gateway.requestDecryption: the Gateway numbers the requests it receives.
requestDecryptionReusing(c, id) ==
    [requestId |-> 0,
     log |-> Append(c.gatewayRequests,
                    [resolutionId |-> id,
                     yes |-> c.resolutions[id].yesVotes,
                     no |-> c.resolutions[id].noVotes])]

requestDecryption(c, id) ==
    [requestId |-> Len(c.gatewayRequests),
     log |-> Append(c.gatewayRequests,
                    [resolutionId |-> id,
                     yes |-> c.resolutions[id].yesVotes,
                     no |-> c.resolutions[id].noVotes])]

closeResolutionBodyRevealing(c, t, caller, id) ==
    IF id \notin DOMAIN c.resolutions THEN Fail(c, "ResolutionDoesNotExist")
    ELSE
    LET r == c.resolutions[id]
        req == requestDecryption(c, id)
    IN  IF r.decryptionRequested THEN Fail(c, "RevealAlreadyRequested")
        ELSE IF ~r.active THEN Fail(c, "ResolutionNotActive")
        ELSE IF ~(t >= r.endTime \/ caller = r.creator)
            THEN Fail(c, "VotingNotEnded")
        ELSE Ok([c EXCEPT
                !.resolutions[id].active = FALSE,
                !.resolutions[id].decryptionRequested = TRUE,
                !.resolutions[id].decryptionRequestTime = t,
                !.resolutions[id].decryptionRequestId = req.requestId,
                !.resolutions[id].revealedYesVotes = r.yesVotes,
                !.resolutions[id].revealedNoVotes = r.noVotes,
                !.gatewayRequests = req.log,
                !.resolutionIdByRequestId = (req.requestId :> id) @@ @])

closeResolutionBodyUnchecked(c, t, caller, id) ==
    IF id \notin DOMAIN c.resolutions THEN Fail(c, "ResolutionDoesNotExist")
    ELSE
    LET r == c.resolutions[id]
        req == requestDecryption(c, id)
    IN  IF ~(t >= r.endTime \/ caller = r.creator)
            THEN Fail(c, "VotingNotEnded")
        ELSE Ok([c EXCEPT
                !.resolutions[id].active = FALSE,
                !.resolutions[id].decryptionRequested = TRUE,
                !.resolutions[id].decryptionRequestTime = t,
                !.resolutions[id].decryptionRequestId = req.requestId,
                !.gatewayRequests = req.log,
                !.resolutionIdByRequestId = (req.requestId :> id) @@ @])

closeResolutionBodyChairperson(c, t, caller, id) ==
    IF id \notin DOMAIN c.resolutions THEN Fail(c, "ResolutionDoesNotExist")
    ELSE
    LET r == c.resolutions[id]
        req == requestDecryption(c, id)
    IN  IF r.decryptionRequested THEN Fail(c, "RevealAlreadyRequested")
        ELSE IF ~r.active THEN Fail(c, "ResolutionNotActive")
        ELSE IF ~(t >= r.endTime \/ caller = r.creator \/ caller = chairperson)
            THEN Fail(c, "VotingNotEnded")
        ELSE Ok([c EXCEPT
                !.resolutions[id].active = FALSE,
                !.resolutions[id].decryptionRequested = TRUE,
                !.resolutions[id].decryptionRequestTime = t,
                !.resolutions[id].decryptionRequestId = req.requestId,
                !.gatewayRequests = req.log,
                !.resolutionIdByRequestId = (req.requestId :> id) @@ @])

closeResolutionBody(c, t, caller, id) ==
    IF id \notin DOMAIN c.resolutions THEN Fail(c, "ResolutionDoesNotExist")
    ELSE
    LET r == c.resolutions[id]
        req == requestDecryption(c, id)
    IN  IF r.decryptionRequested THEN Fail(c, "RevealAlreadyRequested")
        ELSE IF ~r.active THEN Fail(c, "ResolutionNotActive")
        ELSE IF ~(t >= r.endTime \/ caller = r.creator)
            THEN Fail(c, "VotingNotEnded")
        ELSE Ok([c EXCEPT
                !.resolutions[id].active = FALSE,
                !.resolutions[id].decryptionRequested = TRUE,
                !.resolutions[id].decryptionRequestTime = t,
                !.resolutions[id].decryptionRequestId = req.requestId,
                !.gatewayRequests = req.log,
                !.resolutionIdByRequestId = (req.requestId :> id) @@ @])

closeResolutionFn(c, t, caller, id) ==
    nonReentrant(c, closeResolutionBody(Lock(c), t, caller, id))

\* ------------------------------------------------------ reveal delivery
\* A pending request is outstanding while its resolution awaits the reveal;
\* resolving the resolution invalidates it.
IsOutstanding(c, requestId) ==
    /\ requestId \in DOMAIN c.resolutionIdByRequestId
    /\ c.resolutions[c.resolutionIdByRequestId[requestId]].decryptionRequested
    /\ ~c.resolutions[c.resolutionIdByRequestId[requestId]].resolved

FinalizeSwapped(c, id, yes, no, how) ==
    [c EXCEPT
        !.resolutions[id].resolved = TRUE,
        !.resolutions[id].revealedYesVotes = no,
        !.resolutions[id].revealedNoVotes = yes,
        !.finalizedBy[id] = how]

FinalizeReopening(c, id, yes, no, how) ==
    [c EXCEPT
        !.resolutions[id].resolved = TRUE,
        !.resolutions[id].active = TRUE,
        !.resolutions[id].revealedYesVotes = yes,
        !.resolutions[id].revealedNoVotes = no,
        !.finalizedBy[id] = how]

FinalizeEvery(c, id, yes, no, how) ==
    [c EXCEPT
        !.resolutions = [i \in DOMAIN @ |->
            IF i = id \/ (@[i].decryptionRequested /\ ~@[i].resolved)
            THEN [@[i] EXCEPT !.resolved = TRUE,
                              !.revealedYesVotes = yes,
                              !.revealedNoVotes = no]
            ELSE @[i]],
        !.finalizedBy[id] = how]

Finalize(c, id, yes, no, how) ==
    [c EXCEPT
        !.resolutions[id].resolved = TRUE,
        !.resolutions[id].revealedYesVotes = yes,
        !.resolutions[id].revealedNoVotes = no,
        !.finalizedBy[id] = how]

AlwaysResolvable(r) == TRUE

\* "Resolution already resolved": a completed resolution cannot be resolved.
NotYetResolved(r) == ~r.resolved

onlyGatewayOrChairperson(caller) == caller = Gateway \/ caller = chairperson

onlyGateway(caller) == caller = Gateway

resolveResolutionBodyDefaultLookup(c, caller, requestId, yes, no) ==
    IF ~onlyGateway(caller) THEN Fail(c, "UnauthorizedCallback")
    ELSE
    LET id == IF requestId \in DOMAIN c.resolutionIdByRequestId
              THEN c.resolutionIdByRequestId[requestId] ELSE 0
    IN  IF id \notin DOMAIN c.resolutions THEN Fail(c, "UnknownRequest")
        ELSE IF ~(c.resolutions[id].decryptionRequested
                  /\ NotYetResolved(c.resolutions[id]))
            THEN Fail(c, "AlreadyResolved")
        ELSE Ok(Finalize(c, id, yes, no, "callback"))

resolveResolutionBody(c, caller, requestId, yes, no) ==
    IF ~onlyGateway(caller) THEN Fail(c, "UnauthorizedCallback")
    ELSE IF requestId \notin DOMAIN c.resolutionIdByRequestId
        THEN Fail(c, "UnknownRequest")
    ELSE
    LET id == c.resolutionIdByRequestId[requestId]
    IN  IF ~(c.resolutions[id].decryptionRequested
             /\ NotYetResolved(c.resolutions[id]))
            THEN Fail(c, "AlreadyResolved")
        ELSE Ok(Finalize(c, id, yes, no, "callback"))

resolveResolutionFn(c, caller, requestId, yes, no) ==
    nonReentrant(c, resolveResolutionBody(Lock(c), caller, requestId, yes, no))

\* ------------------------------------------------------ timeout fallback
TimeoutReachedAtRequest(r, t) == t >= r.decryptionRequestTime

TimeoutReached(r, t) == t >= r.decryptionRequestTime + DECRYPTION_TIMEOUT

MayHandleTimeoutCreatorOnly(r, caller) == caller = r.creator

MayHandleTimeoutAnyone(r, caller) == TRUE

MayHandleTimeout(r, caller) == caller = r.creator \/ caller = chairperson

handleDecryptionTimeoutBodyTimeOnly(c, t, caller, id) ==
    IF id \notin DOMAIN c.resolutions THEN Fail(c, "ResolutionDoesNotExist")
    ELSE
    LET r == c.resolutions[id]
    IN  IF ~NotYetResolved(r) THEN Fail(c, "AlreadyResolved")
        ELSE IF ~TimeoutReached(r, t) THEN Fail(c, "TimeoutNotReached")
        ELSE IF ~MayHandleTimeout(r, caller)
            THEN Fail(c, "NotCreatorOrChairperson")
        ELSE Ok(Finalize(c, id, 0, 0, "timeout"))

handleDecryptionTimeoutBody(c, t, caller, id) ==
    IF id \notin DOMAIN c.resolutions THEN Fail(c, "ResolutionDoesNotExist")
    ELSE
    LET r == c.resolutions[id]
    IN  IF ~r.decryptionRequested THEN Fail(c, "DecryptionNotRequested")
        ELSE IF ~NotYetResolved(r) THEN Fail(c, "AlreadyResolved")
        ELSE IF ~TimeoutReached(r, t) THEN Fail(c, "TimeoutNotReached")
        ELSE IF ~MayHandleTimeout(r, caller)
            THEN Fail(c, "NotCreatorOrChairperson")
        ELSE Ok(Finalize(c, id, 0, 0, "timeout"))

handleDecryptionTimeoutFn(c, t, caller, id) ==
    nonReentrant(c, handleDecryptionTimeoutBody(Lock(c), t, caller, id))

\* ------------------------------------------------------------------ views
getResolutionLeaking(c, id) ==
    LET r == c.resolutions[id]
    IN  [id |-> r.id, startTime |-> r.startTime, endTime |-> r.endTime,
         active |-> r.active, creator |-> r.creator,
         requiredQuorum |-> r.requiredQuorum,
         decryptionRequested |-> r.decryptionRequested,
         decryptionRequestTime |-> r.decryptionRequestTime,
         decryptionRequestId |-> r.decryptionRequestId,
         resolved |-> r.resolved,
         revealedYesVotes |-> IF r.resolved THEN r.revealedYesVotes ELSE r.yesVotes,
         revealedNoVotes |-> IF r.resolved THEN r.revealedNoVotes ELSE r.noVotes]

\* getResolution: the cleartext fields; the encrypted accumulators are no
\* part of it.
getResolution(c, id) ==
    LET r == c.resolutions[id]
    IN  [id |-> r.id, startTime |-> r.startTime, endTime |-> r.endTime,
         active |-> r.active, creator |-> r.creator,
         requiredQuorum |-> r.requiredQuorum,
         decryptionRequested |-> r.decryptionRequested,
         decryptionRequestTime |-> r.decryptionRequestTime,
         decryptionRequestId |-> r.decryptionRequestId,
         resolved |-> r.resolved,
         revealedYesVotes |-> r.revealedYesVotes,
         revealedNoVotes |-> r.revealedNoVotes]

getResolutionStatusRaw(c, t, id) ==
    LET r == c.resolutions[id]
        due == r.decryptionRequestTime + DECRYPTION_TIMEOUT
    IN  [decryptionRequested |-> r.decryptionRequested,
         decryptionRequestTime |-> r.decryptionRequestTime,
         resolved |-> r.resolved,
         timeUntilTimeout |->
            IF r.decryptionRequested /\ ~r.resolved THEN due - t ELSE 0]

\* getResolutionStatus: (decryptionRequested, decryptionRequestTime, resolved,
\* timeUntilTimeout).
getResolutionStatus(c, t, id) ==
    LET r == c.resolutions[id]
        due == r.decryptionRequestTime + DECRYPTION_TIMEOUT
    IN  [decryptionRequested |-> r.decryptionRequested,
         decryptionRequestTime |-> r.decryptionRequestTime,
         resolved |-> r.resolved,
         timeUntilTimeout |->
            IF r.decryptionRequested /\ ~r.resolved /\ t < due
            THEN due - t ELSE 0]

hasVoted(c, id, a) == c.ballots[id][a].cast

passedOnTie(c, id) ==
    LET r == c.resolutions[id]
    IN  /\ r.resolved
        /\ r.revealedYesVotes >= r.revealedNoVotes
        /\ r.revealedYesVotes + r.revealedNoVotes >= r.requiredQuorum

\* The outcome policy: a resolution passes on a strict majority of the
\* revealed votes that meets the quorum.
passed(c, id) ==
    LET r == c.resolutions[id]
    IN  /\ r.resolved
        /\ r.revealedYesVotes > r.revealedNoVotes
        /\ r.revealedYesVotes + r.revealedNoVotes >= r.requiredQuorum

\* ------------------------------------------------------------ environment
Day == DECRYPTION_TIMEOUT

Actors == 1..NumActors

Ids == 0..MaxResolutions

RequestIds == 0..MaxResolutions

\* One transaction: the state of the call's outcome is installed; a call that
\* reverted leaves the state of entry.
Commit(out) ==
    /\ Install(out.state)
    /\ UNCHANGED <<now, twin, unvoted, fhevmClient, fhevmProvider>>

\* The Gateway's decryption of request requestId, when it issued it.
Decryption(c, requestId) ==
    IF requestId + 1 \in DOMAIN c.gatewayRequests
    THEN <<c.gatewayRequests[requestId + 1].yes,
           c.gatewayRequests[requestId + 1].no>>
    ELSE <<0, 0>>

\* --------------------------------------------------------------- actions
addBoardMember(caller, member, nameLen, positionLen, power) ==
    Commit(addBoardMemberFn(Contract, caller, member, nameLen, positionLen, power))

removeBoardMember(caller, member) ==
    Commit(removeBoardMemberFn(Contract, caller, member))

createResolution(caller, titleLen, descriptionLen, quorum) ==
    /\ resolutionCount < MaxResolutions
    /\ Commit(createResolutionFn(Contract, now, caller, titleLen, descriptionLen,
                                 quorum))

castVote(caller, id, choice, proofOk) ==
    Commit(castVoteFn(Contract, now, caller, id, choice, proofOk))

closeResolution(caller, id) ==
    Commit(closeResolutionFn(Contract, now, caller, id))

\* The Gateway delivers what it decrypted; any other caller may try any pair.
resolveResolution(caller, requestId, yes, no) ==
    /\ caller = Gateway => <<yes, no>> = Decryption(Contract, requestId)
    /\ Commit(resolveResolutionFn(Contract, caller, requestId, yes, no))

handleDecryptionTimeout(caller, id) ==
    Commit(handleDecryptionTimeoutFn(Contract, now, caller, id))

\* The number of steps of time that lead to t: whole voting periods and days.
TicksTaken(t) == (t \div VOTING_DURATION) + ((t % VOTING_DURATION) \div Day)

Tick(d) ==
    /\ TicksTaken(now) < MaxTicks
    /\ now' = now + d
    /\ UNCHANGED <<boardMembers, totalVotingPower, resolutionCount, resolutions,
                   ballots, resolutionIdByRequestId, gatewayRequests, locked,
                   finalizedBy, twin, unvoted, fhevmClient, fhevmProvider>>

Starts(c) ==
    /\ boardMembers = c.boardMembers
    /\ totalVotingPower = c.totalVotingPower
    /\ resolutionCount = c.resolutionCount
    /\ resolutions = c.resolutions
    /\ ballots = c.ballots
    /\ resolutionIdByRequestId = c.resolutionIdByRequestId
    /\ gatewayRequests = c.gatewayRequests
    /\ locked = c.locked
    /\ finalizedBy = c.finalizedBy

\* ------------------------------------------- the lifecycle specification
\* Three identities (the chairperson, a second creator, a bystander) and the
\* Gateway; members come from self-registration; every resolution lives
\* through voting, reveal request, delivery or timeout.
Init ==
    /\ Starts(Deployed)
    /\ now = 0
    /\ twin = Deployed
    /\ unvoted = Deployed
    /\ fhevmClient = NewFhevmClient
    /\ fhevmProvider = FirstRender

Next ==
    \/ \E caller \in 1..2, titleLen \in {0, 1}, quorum \in 0..1 :
            createResolution(caller, titleLen, 1, quorum)
    \/ \E id \in Ids, choice \in BOOLEAN :
            castVote(2, id, choice, TRUE)
    \/ \E caller \in Actors, id \in Ids : closeResolution(caller, id)
    \/ \E requestId \in RequestIds :
            resolveResolution(Gateway, requestId,
                              Decryption(Contract, requestId)[1],
                              Decryption(Contract, requestId)[2])
    \/ \E caller \in Actors, requestId \in RequestIds :
            resolveResolution(caller, requestId, 1, 0)
    \/ \E caller \in Actors \cup {Gateway}, id \in Ids :
            handleDecryptionTimeout(caller, id)
    \/ \E d \in {DECRYPTION_TIMEOUT, VOTING_DURATION} : Tick(d)

Spec == Init /\ [][Next]_vars

\* ------------------------------------------------------- lifecycle states
IsActive(c, id) ==
    /\ c.resolutions[id].active
    /\ ~c.resolutions[id].decryptionRequested
    /\ ~c.resolutions[id].resolved

IsRevealRequested(c, id) ==
    /\ c.resolutions[id].decryptionRequested
    /\ ~c.resolutions[id].resolved

IsResolved(c, id) == c.resolutions[id].resolved

\* The Gateway requests issued for resolution id.
RequestsOf(c, id) ==
    {q \in DOMAIN c.gatewayRequests : c.gatewayRequests[q].resolutionId = id}

\* The time at which the timeout of a requested reveal is reached.
Due(c, id) == c.resolutions[id].decryptionRequestTime + DECRYPTION_TIMEOUT

Pairs == (0..NumActors) \X (0..NumActors)

\* C1: a delivery for a request id whose pending entry was consumed (its
\* resolution is resolved, by delivery or by timeout) fails with a StateError or
\* a NotFoundError whatever pair it carries, and leaves the whole state, so
\* resolved, the revealed votes and the way it was finalized, as it was.
C1_ConsumedDeliveryRejected ==
    \A id \in DOMAIN resolutions : \A q \in RequestsOf(Contract, id) :
        IsResolved(Contract, id) =>
            \A p \in Pairs :
                LET out == resolveResolutionFn(Contract, Gateway, q - 1, p[1], p[2])
                IN  /\ out.result \in StateErrors \cup NotFoundErrors
                    /\ out.state = Contract

C1_Witness ==
    \E id \in DOMAIN resolutions :
        /\ finalizedBy[id] = "callback"
        /\ resolutions[id].revealedYesVotes = 1
        /\ resolveResolutionFn(Contract, Gateway,
                               resolutions[id].decryptionRequestId, 0, 1).result
                = "AlreadyResolved"

\* The identities that may handle the timeout of resolution id.
Handlers(c, id) == {c.resolutions[id].creator, chairperson}

\* C2: once the timeout of a requested reveal is reached, the Gateway's
\* delivery and the timeout handler of the creator or chairperson are both
\* possible; whichever runs first succeeds and the other is then rejected with
\* an error and changes nothing, so a timeout after a delivery does not zero
\* the delivered votes.
C2_FirstTransitionWins ==
    \A id \in DOMAIN resolutions :
        (IsRevealRequested(Contract, id) /\ now >= Due(Contract, id)) =>
            \A p \in Pairs : \A h \in Handlers(Contract, id) :
                LET q == resolutions[id].decryptionRequestId
                    d == resolveResolutionFn(Contract, Gateway, q, p[1], p[2])
                    t == handleDecryptionTimeoutFn(Contract, now, h, id)
                    dt == handleDecryptionTimeoutFn(d.state, now, h, id)
                    td == resolveResolutionFn(t.state, Gateway, q, p[1], p[2])
                IN  /\ d.result = "ok" /\ t.result = "ok"
                    /\ d.state.resolutions[id].revealedYesVotes = p[1]
                    /\ d.state.resolutions[id].revealedNoVotes = p[2]
                    /\ dt.result \in Errors /\ dt.state = d.state
                    /\ td.result \in Errors /\ td.state = t.state

\* C2: the revealed votes of a resolved resolution never change again.
C2_WrittenOnce ==
    \A id \in DOMAIN resolutions :
        resolutions[id].resolved =>
            /\ resolutions'[id].resolved
            /\ resolutions'[id].revealedYesVotes = resolutions[id].revealedYesVotes
            /\ resolutions'[id].revealedNoVotes = resolutions[id].revealedNoVotes

C2_Race == [](C2_FirstTransitionWins) /\ [][C2_WrittenOnce]_vars

C2_Witness ==
    \E id \in DOMAIN resolutions :
        /\ finalizedBy[id] = "callback"
        /\ resolutions[id].revealedNoVotes = 1
        /\ now >= Due(Contract, id)
        /\ handleDecryptionTimeoutFn(Contract, now, chairperson, id).result
                = "AlreadyResolved"

\* C3: once the reveal of a resolution was requested, closeResolution on it
\* fails with RevealAlreadyRequested for every caller at every time and changes
\* nothing; the Gateway has received exactly one request for it, and none for
\* a resolution whose reveal was not requested.
C3_SingleRequest ==
    \A id \in DOMAIN resolutions :
        /\ Cardinality(RequestsOf(Contract, id))
                = (IF resolutions[id].decryptionRequested THEN 1 ELSE 0)
        /\ resolutions[id].decryptionRequested =>
            \A caller \in Actors \cup {Gateway} :
            \A t \in {now, resolutions[id].endTime - 1, resolutions[id].endTime} :
                LET out == closeResolutionFn(Contract, t, caller, id)
                IN  /\ out.result = "RevealAlreadyRequested"
                    /\ out.result \in StateErrors
                    /\ out.state = Contract

C3_Witness ==
    \E id \in DOMAIN resolutions :
        /\ IsRevealRequested(Contract, id)
        /\ now >= resolutions[id].endTime
        /\ resolutions[id].creator # chairperson
        /\ closeResolutionFn(Contract, now, resolutions[id].creator, id).result
                = "RevealAlreadyRequested"

\* C4: while the reveal of a resolution is requested and the timeout is not
\* reached, handleDecryptionTimeout fails with TimeoutNotReached for every
\* caller, the creator and the chairperson included, and the resolution stays
\* unresolved with its request outstanding.
C4_TimeoutNotReached ==
    \A id \in DOMAIN resolutions :
        IsRevealRequested(Contract, id) =>
            \A caller \in Actors \cup {Gateway} :
            \A t \in {now, resolutions[id].decryptionRequestTime,
                      Due(Contract, id) - 1} :
                t < Due(Contract, id) =>
                    LET out == handleDecryptionTimeoutFn(Contract, t, caller, id)
                    IN  /\ out.result = "TimeoutNotReached"
                        /\ out.result \in StateErrors
                        /\ out.state = Contract
                        /\ IsOutstanding(out.state,
                                         resolutions[id].decryptionRequestId)

C4_Witness ==
    \E id \in DOMAIN resolutions :
        /\ IsRevealRequested(Contract, id)
        /\ now > 0
        /\ now < Due(Contract, id)
        /\ resolutions[id].creator # chairperson
        /\ handleDecryptionTimeoutFn(Contract, now, resolutions[id].creator,
                                     id).result = "TimeoutNotReached"

\* ---------------------------------------- the unresponsive-Gateway runs
\* The lifecycle with time that keeps advancing and a chairperson who keeps
\* handling the timeouts that are due; the Gateway may deliver or stay silent.
\* A reveal is requested only while the model's clock can still advance.
NextLive ==
    \/ \E caller \in 1..2, quorum \in 0..1 : createResolution(caller, 1, 1, quorum)
    \/ \E id \in Ids, choice \in BOOLEAN : castVote(2, id, choice, TRUE)
    \/ \E caller \in Actors, id \in Ids :
            TicksTaken(now) < MaxTicks /\ closeResolution(caller, id)
    \/ \E requestId \in RequestIds :
            resolveResolution(Gateway, requestId,
                              Decryption(Contract, requestId)[1],
                              Decryption(Contract, requestId)[2])
    \/ \E caller \in Actors, id \in Ids : handleDecryptionTimeout(caller, id)
    \/ \E d \in {DECRYPTION_TIMEOUT, VOTING_DURATION} : Tick(d)

SpecLive ==
    /\ Init
    /\ [][NextLive]_vars
    /\ WF_vars(Tick(DECRYPTION_TIMEOUT))
    /\ \A id \in 0..(MaxResolutions - 1) :
            WF_vars(handleDecryptionTimeout(chairperson, id))

\* C5: whenever the reveal of a resolution is requested and the timeout is
\* reached, handleDecryptionTimeout succeeds for its creator and for the
\* chairperson and resolves it.
C5_TimeoutSucceeds ==
    \A id \in DOMAIN resolutions :
        (IsRevealRequested(Contract, id) /\ now >= Due(Contract, id)) =>
            \A h \in Handlers(Contract, id) :
                LET out == handleDecryptionTimeoutFn(Contract, now, h, id)
                IN  out.result = "ok" /\ IsResolved(out.state, id)

\* C5: with time advancing and the chairperson handling due timeouts, every
\* resolution whose reveal is requested is eventually resolved.
C5_NoPermanentLock ==
    /\ [](C5_TimeoutSucceeds)
    /\ \A id \in 0..(MaxResolutions - 1) :
            (id \in DOMAIN resolutions /\ IsRevealRequested(Contract, id))
                ~> (id \in DOMAIN resolutions /\ IsResolved(Contract, id))

C5_Witness ==
    \E id \in DOMAIN resolutions :
        /\ finalizedBy[id] = "timeout"
        /\ resolutions[id].creator # chairperson
        /\ resolutions[id].resolved

\* ------------------------------------------------ the board of simulate.js
\* The chairperson has added four members (Alice, Bob, Carol, David) with a
\* voting power of 2 or 3 each, among them the powers 3, 3, 2, 2 of the
\* simulation, and has opened resolution 0 with quorum 6.
SCENARIO_QUORUM == 6

BoardPowers == {2, 3}

Added(c, member, power) == addBoardMemberFn(c, chairperson, member, 1, 1, power).state

Board(w) ==
    createResolutionFn(Added(Added(Added(Added(Deployed, 2, w[2]), 3, w[3]), 4, w[4]),
                             5, w[5]),
                       0, chairperson, 1, 1, SCENARIO_QUORUM).state

InitBoard ==
    /\ \E w \in [2..5 -> BoardPowers] : Starts(Board(w))
    /\ now = 0
    /\ twin = Deployed
    /\ unvoted = Deployed
    /\ fhevmClient = NewFhevmClient
    /\ fhevmProvider = FirstRender

NextBoard ==
    \/ \E caller \in Addr, choice \in BOOLEAN : castVote(caller, 0, choice, TRUE)
    \/ \E caller \in 1..2 : closeResolution(caller, 0)
    \/ resolveResolution(Gateway, 0, Decryption(Contract, 0)[1],
                         Decryption(Contract, 0)[2])
    \/ \E caller \in 1..2 : handleDecryptionTimeout(caller, 0)
    \/ \E d \in {DECRYPTION_TIMEOUT, VOTING_DURATION} : Tick(d)

SpecBoard == InitBoard /\ [][NextBoard]_vars

RECURSIVE SumOver(_, _)
SumOver(f, S) ==
    IF S = {} THEN 0
    ELSE LET x == CHOOSE y \in S : TRUE IN f[x] + SumOver(f, S \ {x})

\* The members whose latest vote on resolution id is yes, and those whose
\* latest vote is no.
YesVoters(c, id) == {a \in Addr : c.ballots[id][a].cast /\ c.ballots[id][a].yes > 0}

NoVoters(c, id) == {a \in Addr : c.ballots[id][a].cast /\ c.ballots[id][a].no > 0}

PowerOf(c) == [a \in Addr |-> c.boardMembers[a].votingPower]

C8_RevealedTotals ==
    \A id \in DOMAIN resolutions :
        finalizedBy[id] = "callback" =>
            LET r == resolutions[id]
                Y == YesVoters(Contract, id)
                N == NoVoters(Contract, id)
            IN  /\ r.revealedYesVotes = SumOver(PowerOf(Contract), Y)
                /\ r.revealedNoVotes = SumOver(PowerOf(Contract), N)
                /\ (/\ r.requiredQuorum = 6
                    /\ Cardinality(Y) = 3 /\ Cardinality(N) = 1
                    /\ SumOver(PowerOf(Contract), Y) = 8
                    /\ SumOver(PowerOf(Contract), N) = 2)
                        => (/\ r.revealedYesVotes = 8
                            /\ r.revealedNoVotes = 2
                            /\ passed(Contract, id))

C8_Witness ==
    /\ 0 \in DOMAIN resolutions
    /\ finalizedBy[0] = "callback"
    /\ PowerOf(Contract) = (1 :> 1) @@ (2 :> 3) @@ (3 :> 3) @@ (4 :> 2) @@ (5 :> 2)
    /\ YesVoters(Contract, 0) = {2, 3, 4}
    /\ NoVoters(Contract, 0) = {5}
    /\ resolutions[0].revealedYesVotes = 8
    /\ resolutions[0].revealedNoVotes = 2
    /\ passed(Contract, 0)

\* What the contract stores about resolution id: its record and the ballots.
Stored(c, id) == [resolution |-> c.resolutions[id], ballots |-> c.ballots[id]]

\* C9: a timeout handled on a resolution resolves it with zero revealed votes,
\* not passed, and leaves a stored state other than the one a delivery of a
\* genuine (0, 0) decryption leaves.
C9_TimeoutDistinguishable ==
    \A id \in DOMAIN resolutions :
        (/\ IsRevealRequested(Contract, id)
         /\ now >= Due(Contract, id)
         /\ Decryption(Contract, resolutions[id].decryptionRequestId) = <<0, 0>>) =>
            LET t == handleDecryptionTimeoutFn(Contract, now, chairperson, id)
                d == resolveResolutionFn(Contract, Gateway,
                                         resolutions[id].decryptionRequestId, 0, 0)
            IN  /\ t.result = "ok" /\ d.result = "ok"
                /\ t.state.resolutions[id].resolved
                /\ t.state.resolutions[id].revealedYesVotes = 0
                /\ t.state.resolutions[id].revealedNoVotes = 0
                /\ ~passed(t.state, id)
                /\ Stored(t.state, id) # Stored(d.state, id)

\* ------------------------------------------------------ vote replacement
\* Member 2 is observed. Beside the contract the specification runs two more
\* executions of the same operations: unvoted, in which the observed member
\* cast no vote at all, and twin, in which of the observed member's votes only
\* the last one was cast. The chairperson removes the observed member and adds
\* it again with another voting power, member 3 votes too.
Observed == chairperson + 1

MaxPower == 2

InitVote ==
    /\ \E power \in 1..MaxPower :
        LET c == createResolutionFn(Added(Deployed, Observed, power), 0,
                                    chairperson, 1, 1, 1).state
        IN  Starts(c) /\ twin = c /\ unvoted = c
    /\ now = 0
    /\ fhevmClient = NewFhevmClient
    /\ fhevmProvider = FirstRender

\* The observed member casts a vote that succeeds: the twin casts it as the
\* only vote of the member.
VoteObserved(choice) ==
    LET out == castVoteFn(Contract, now, Observed, 0, choice, TRUE)
    IN  /\ out.result = "ok"
        /\ Install(out.state)
        /\ twin' = castVoteFn(unvoted, now, Observed, 0, choice, TRUE).state
        /\ UNCHANGED <<now, unvoted, fhevmClient, fhevmProvider>>

VoteOther(choice) ==
    /\ Install(castVoteFn(Contract, now, 3, 0, choice, TRUE).state)
    /\ twin' = castVoteFn(twin, now, 3, 0, choice, TRUE).state
    /\ unvoted' = castVoteFn(unvoted, now, 3, 0, choice, TRUE).state
    /\ UNCHANGED <<now, fhevmClient, fhevmProvider>>

RemoveObserved ==
    /\ Install(removeBoardMemberFn(Contract, chairperson, Observed).state)
    /\ twin' = removeBoardMemberFn(twin, chairperson, Observed).state
    /\ unvoted' = removeBoardMemberFn(unvoted, chairperson, Observed).state
    /\ UNCHANGED <<now, fhevmClient, fhevmProvider>>

AddObserved(power) ==
    /\ Install(addBoardMemberFn(Contract, chairperson, Observed, 1, 1, power).state)
    /\ twin' = addBoardMemberFn(twin, chairperson, Observed, 1, 1, power).state
    /\ unvoted' = addBoardMemberFn(unvoted, chairperson, Observed, 1, 1, power).state
    /\ UNCHANGED <<now, fhevmClient, fhevmProvider>>

CloseAll ==
    /\ Install(closeResolutionFn(Contract, now, chairperson, 0).state)
    /\ twin' = closeResolutionFn(twin, now, chairperson, 0).state
    /\ unvoted' = closeResolutionFn(unvoted, now, chairperson, 0).state
    /\ UNCHANGED <<now, fhevmClient, fhevmProvider>>

NextVote ==
    \/ \E choice \in BOOLEAN : VoteObserved(choice)
    \/ \E choice \in BOOLEAN : VoteOther(choice)
    \/ RemoveObserved
    \/ \E power \in 1..MaxPower : AddObserved(power)
    \/ CloseAll
    \/ \E d \in {DECRYPTION_TIMEOUT, VOTING_DURATION} : Tick(d)

SpecVote == InitVote /\ [][NextVote]_vars

Accumulators(c, id) == <<c.resolutions[id].yesVotes, c.resolutions[id].noVotes>>

VotePair(caller, id, choice, twinChoice) ==
    /\ Install(castVoteFn(Contract, now, caller, id, choice, TRUE).state)
    /\ twin' = castVoteFn(twin, now, caller, id, twinChoice, TRUE).state
    /\ UNCHANGED <<now, unvoted, fhevmClient, fhevmProvider>>

MaxPairResolutions == 1

CreatePair(caller, quorum) ==
    /\ resolutionCount < MaxPairResolutions
    /\ Install(createResolutionFn(Contract, now, caller, 1, 1, quorum).state)
    /\ twin' = createResolutionFn(twin, now, caller, 1, 1, quorum).state
    /\ UNCHANGED <<now, unvoted, fhevmClient, fhevmProvider>>

RemovePair(member) ==
    /\ Install(removeBoardMemberFn(Contract, chairperson, member).state)
    /\ twin' = removeBoardMemberFn(twin, chairperson, member).state
    /\ UNCHANGED <<now, unvoted, fhevmClient, fhevmProvider>>

ClosePair(caller, id) ==
    /\ Install(closeResolutionFn(Contract, now, caller, id).state)
    /\ twin' = closeResolutionFn(twin, now, caller, id).state
    /\ UNCHANGED <<now, unvoted, fhevmClient, fhevmProvider>>

DeliverPair(requestId) ==
    /\ Install(resolveResolutionFn(Contract, Gateway, requestId,
                                   Decryption(Contract, requestId)[1],
                                   Decryption(Contract, requestId)[2]).state)
    /\ twin' = resolveResolutionFn(twin, Gateway, requestId,
                                   Decryption(twin, requestId)[1],
                                   Decryption(twin, requestId)[2]).state
    /\ UNCHANGED <<now, unvoted, fhevmClient, fhevmProvider>>

TimeoutPair(caller, id) ==
    /\ Install(handleDecryptionTimeoutFn(Contract, now, caller, id).state)
    /\ twin' = handleDecryptionTimeoutFn(twin, now, caller, id).state
    /\ UNCHANGED <<now, unvoted, fhevmClient, fhevmProvider>>

PairIds == 0..1

NextPair ==
    \/ \E caller \in 2..3, id \in PairIds, choice \in BOOLEAN, twinChoice \in BOOLEAN :
            VotePair(caller, id, choice, twinChoice)
    \/ \E caller \in 1..2, quorum \in 0..1 : CreatePair(caller, quorum)
    \/ RemovePair(2)
    \/ \E caller \in 1..2, id \in PairIds : ClosePair(caller, id)
    \/ \E requestId \in PairIds : DeliverPair(requestId)
    \/ \E caller \in 1..2, id \in PairIds : TimeoutPair(caller, id)
    \/ \E d \in {DECRYPTION_TIMEOUT, VOTING_DURATION} : Tick(d)

InitPair ==
    /\ Starts(Deployed)
    /\ now = 0
    /\ twin = Deployed
    /\ unvoted = Deployed
    /\ fhevmClient = NewFhevmClient
    /\ fhevmProvider = FirstRender

SpecPair == InitPair /\ [][NextPair]_vars

\* The Gateway has delivered the decryption of resolution id.
Delivered(c, id) == c.finalizedBy[id] = "callback"

\* Everything a caller can read in the clear at time t: the member records,
\* the public fields of every resolution whose decryption is not delivered,
\* the status results, who has voted, and the request ids.
Cleartext(c, t) ==
    [boardMembers |-> c.boardMembers,
     totalVotingPower |-> getTotalVotingPower(c),
     resolutionCount |-> c.resolutionCount,
     resolutions |-> [id \in DOMAIN c.resolutions |->
                        IF Delivered(c, id)
                        THEN [getResolution(c, id) EXCEPT !.revealedYesVotes = 0,
                                                          !.revealedNoVotes = 0]
                        ELSE getResolution(c, id)],
     status |-> [id \in DOMAIN c.resolutions |-> getResolutionStatus(c, t, id)],
     hasVoted |-> [id \in DOMAIN c.resolutions |->
                        [a \in Addr |-> hasVoted(c, id, a)]],
     resolutionIdByRequestId |-> c.resolutionIdByRequestId,
     requests |-> [i \in DOMAIN c.gatewayRequests |-> c.gatewayRequests[i].resolutionId]]

\* The success or error outcome of every operation on c at time t, a vote
\* carrying the given choice.
Outcomes(c, t, choice) ==
    [castVote |-> [caller \in Addr, id \in PairIds |->
                        castVoteFn(c, t, caller, id, choice, TRUE).result],
     createResolution |-> [caller \in Addr, quorum \in 0..1 |->
                        createResolutionFn(c, t, caller, 1, 1, quorum).result],
     addBoardMember |-> [member \in Addr |->
                        addBoardMemberFn(c, chairperson, member, 1, 1, 1).result],
     removeBoardMember |-> [member \in Addr |->
                        removeBoardMemberFn(c, chairperson, member).result],
     closeResolution |-> [caller \in Addr, id \in PairIds |->
                        closeResolutionFn(c, t, caller, id).result],
     resolveResolution |-> [requestId \in PairIds |->
                        resolveResolutionFn(c, Gateway, requestId,
                                            Decryption(c, requestId)[1],
                                            Decryption(c, requestId)[2]).result],
     handleDecryptionTimeout |-> [caller \in Addr, id \in PairIds |->
                        handleDecryptionTimeoutFn(c, t, caller, id).result]]

\* C10: two executions of the same operations that differ only in the choices
\* of the votes agree, until the Gateway delivers, in every value readable in
\* the clear (member records, public resolution fields with revealed totals
\* 0, status results) and in the outcome of every operation; a resolution
\* whose decryption is not delivered shows revealed totals 0.
C10_VoteConfidentiality ==
    /\ Cleartext(Contract, now) = Cleartext(twin, now)
    /\ \A choice \in BOOLEAN, twinChoice \in BOOLEAN :
            Outcomes(Contract, now, choice) = Outcomes(twin, now, twinChoice)
    /\ \A id \in DOMAIN resolutions :
            ~Delivered(Contract, id) =>
                /\ getResolution(Contract, id).revealedYesVotes = 0
                /\ getResolution(Contract, id).revealedNoVotes = 0

\* The two executions hold different accumulators for a resolution that is
\* closed and waits for the Gateway.
C10_Witness ==
    \E id \in DOMAIN resolutions :
        /\ id \in DOMAIN twin.resolutions
        /\ IsRevealRequested(Contract, id)
        /\ Accumulators(Contract, id) # Accumulators(twin, id)
        /\ hasVoted(Contract, id, 2) /\ hasVoted(Contract, id, 3)

\* ------------------------------------------------------------ the registry
\* The chairperson and another caller register identities (the zero address
\* and out-of-range voting powers among them), deactivate them, deactivate
\* them again and register them again; first-time actors register themselves
\* by opening a resolution or by voting.
RegistryMembers == 0..3

RegistryPowers == {0, 1, MAX_VOTING_POWER, MAX_VOTING_POWER + 1}

RegistryQuorums == {0, 1, 2, MAX_VOTING_POWER + 1}

MaxRegistryResolutions == 1

NextRegistry ==
    \/ \E caller \in 1..2, member \in RegistryMembers, nameLen \in {0, 1},
          power \in RegistryPowers :
            addBoardMember(caller, member, nameLen, 1, power)
    \/ \E caller \in 1..2, member \in RegistryMembers :
            removeBoardMember(caller, member)
    \/ \E caller \in 2..3, titleLen \in {1, MAX_LENGTH + 1},
          quorum \in RegistryQuorums :
            /\ resolutionCount < MaxRegistryResolutions
            /\ createResolution(caller, titleLen, 1, quorum)
    \/ \E caller \in 3..4, id \in 0..1 : castVote(caller, id, TRUE, TRUE)
    \/ \E d \in {DECRYPTION_TIMEOUT, VOTING_DURATION} : Tick(d)

SpecRegistry == Init /\ [][NextRegistry]_vars

ActiveMembers(c) == {a \in Addr : c.boardMembers[a].isActive}

\* C11: totalVotingPower is the sum of the voting powers of the members whose
\* active flag is set, and every active member has a voting power in 1..1000.
C11_TotalIsSumOfActive ==
    /\ totalVotingPower = SumOver(PowerOf(Contract), ActiveMembers(Contract))
    /\ getTotalVotingPower(Contract) = totalVotingPower
    /\ \A a \in ActiveMembers(Contract) :
            /\ boardMembers[a].votingPower >= 1
            /\ boardMembers[a].votingPower <= MAX_VOTING_POWER

\* Member 2 is registered with the largest voting power, member 3 registered
\* itself and was deactivated (deactivating it again changes nothing), member
\* 4 registered itself by voting, the chairperson is deactivated.
C11_Witness ==
    /\ boardMembers[2] = [isActive |-> TRUE, votingPower |-> MAX_VOTING_POWER]
    /\ boardMembers[3] = [isActive |-> FALSE, votingPower |-> DEFAULT_VOTING_POWER]
    /\ boardMembers[4] = [isActive |-> TRUE, votingPower |-> DEFAULT_VOTING_POWER]
    /\ ~boardMembers[chairperson].isActive
    /\ totalVotingPower = MAX_VOTING_POWER + DEFAULT_VOTING_POWER
    /\ removeBoardMemberFn(Contract, chairperson, 3).result = "ok"
    /\ removeBoardMemberFn(Contract, chairperson, 3).state = Contract

\* ---------------------------------------------------- lifecycle invariants
LifecycleState(r) ==
    IF r.active /\ ~r.decryptionRequested /\ ~r.resolved THEN "Active"
    ELSE IF ~r.active /\ r.decryptionRequested /\ ~r.resolved THEN "RevealRequested"
    ELSE IF ~r.active /\ r.decryptionRequested /\ r.resolved THEN "Resolved"
    ELSE "none"

C12_OneOfThree ==
    \A id \in DOMAIN resolutions :
        LifecycleState(resolutions[id]) \in {"Active", "RevealRequested", "Resolved"}

C12_ForwardOnly ==
    \A id \in DOMAIN resolutions :
        LET before == LifecycleState(resolutions[id])
            after == LifecycleState(resolutions'[id])
        IN  /\ id \in DOMAIN resolutions'
            /\ resolutions[id].resolved => resolutions'[id].resolved
            /\ resolutions[id].decryptionRequested => resolutions'[id].decryptionRequested
            /\ ~resolutions[id].active => ~resolutions'[id].active
            /\ <<before, after>> \in {<<"Active", "Active">>,
                                      <<"Active", "RevealRequested">>,
                                      <<"RevealRequested", "RevealRequested">>,
                                      <<"RevealRequested", "Resolved">>,
                                      <<"Resolved", "Resolved">>}

\* C12: every resolution is at all times in exactly one of Active,
\* RevealRequested and Resolved, and a step moves it forward only, one state at
\* a time: resolved and decryptionRequested never return to false, active
\* never returns to true, nothing is resolved without a reveal request.
C12_Lifecycle == [](C12_OneOfThree) /\ [][C12_ForwardOnly]_vars

\* One resolution in each of the states, the resolved one by the callback.
C12_Witness ==
    /\ resolutionCount = 2
    /\ LifecycleState(resolutions[0]) = "Resolved"
    /\ finalizedBy[0] = "callback"
    /\ LifecycleState(resolutions[1]) = "RevealRequested"

\* The request ids the index maps to resolution id, and the outstanding ones.
PendingOf(c, id) ==
    {q \in DOMAIN c.resolutionIdByRequestId : c.resolutionIdByRequestId[q] = id}

OutstandingOf(c, id) == {q \in PendingOf(c, id) : IsOutstanding(c, q)}

C13_OneToOne ==
    /\ \A id \in DOMAIN resolutions :
        /\ IsRevealRequested(Contract, id)
            <=> OutstandingOf(Contract, id) # {}
        /\ IsRevealRequested(Contract, id)
            => OutstandingOf(Contract, id) = {resolutions[id].decryptionRequestId}
        /\ resolutions[id].decryptionRequested
            => PendingOf(Contract, id) = {resolutions[id].decryptionRequestId}
        /\ ~resolutions[id].decryptionRequested => PendingOf(Contract, id) = {}
    /\ \A q \in DOMAIN resolutionIdByRequestId :
        resolutionIdByRequestId[q] \in DOMAIN resolutions

C13_NeverRemapped ==
    \A q \in DOMAIN resolutionIdByRequestId :
        /\ q \in DOMAIN resolutionIdByRequestId'
        /\ resolutionIdByRequestId'[q] = resolutionIdByRequestId[q]

\* C13: a resolution has an outstanding pending entry exactly while it is in
\* RevealRequested, under the request id stored in the resolution and under
\* no other; a request id is never mapped to a second resolution.
C13_PendingIndex == [](C13_OneToOne) /\ [][C13_NeverRemapped]_vars

\* Two requests issued: one outstanding, one invalidated by the timeout.
C13_Witness ==
    /\ resolutionCount = 2
    /\ OutstandingOf(Contract, 0) = {1}
    /\ PendingOf(Contract, 1) = {0}
    /\ finalizedBy[1] = "timeout"
    /\ OutstandingOf(Contract, 1) = {}

\* The request ids the Gateway never issued, among those a caller may try.
NeverIssued(c) == {q \in 0..(MaxResolutions + 1) : q >= Len(c.gatewayRequests)}

C15_UnauthorizedCallback ==
    \A caller \in Addr : \A q \in 0..(MaxResolutions + 1) : \A p \in Pairs :
        LET out == resolveResolutionFn(Contract, caller, q, p[1], p[2])
        IN  /\ out.result = "UnauthorizedCallback"
            /\ out.state = Contract

\* A request of a resolution created by member 2 is outstanding; the creator
\* and the chairperson are refused.
C15_Witness ==
    \E q \in DOMAIN resolutionIdByRequestId :
        /\ IsOutstanding(Contract, q)
        /\ resolutions[resolutionIdByRequestId[q]].creator = 2
        /\ resolveResolutionFn(Contract, 2, q, 1, 0).result = "UnauthorizedCallback"
        /\ resolveResolutionFn(Contract, chairperson, q, 1, 0).result
                = "UnauthorizedCallback"

\* C16: a reveal request on an Active resolution succeeds exactly when the
\* voting period has ended or the caller is the creator: before endTime every
\* other caller, the chairperson included, is rejected and nothing changes;
\* from endTime on every caller succeeds.
C16_WhoMayClose ==
    \A id \in DOMAIN resolutions : \A caller \in Addr \cup {Gateway} :
        IsActive(Contract, id) =>
            LET out == closeResolutionFn(Contract, now, caller, id)
                r == resolutions[id]
            IN  /\ out.result = "ok" <=> (now >= r.endTime \/ caller = r.creator)
                /\ out.result # "ok" =>
                        out.result \in Errors /\ out.state = Contract
                /\ out.result = "ok" => IsRevealRequested(out.state, id)

\* Before endTime the chairperson is refused on a resolution of member 2, its
\* creator is not; on another resolution, past its endTime, a bystander
\* succeeds.
C16_Witness ==
    \E id \in DOMAIN resolutions, other \in DOMAIN resolutions :
        /\ IsActive(Contract, id) /\ IsActive(Contract, other)
        /\ resolutions[id].creator = 2
        /\ now < resolutions[id].endTime
        /\ closeResolutionFn(Contract, now, chairperson, id).result = "VotingNotEnded"
        /\ closeResolutionFn(Contract, now, 2, id).result = "ok"
        /\ now >= resolutions[other].endTime
        /\ closeResolutionFn(Contract, now, 3, other).result = "ok"

\* C17: the timeout handler called by an identity that is neither the creator
\* nor the chairperson is rejected and changes no state, also when the reveal
\* is requested and the timeout has elapsed.
C17_WhoMayHandleTimeout ==
    \A id \in DOMAIN resolutions : \A caller \in Addr \cup {Gateway} :
        caller \notin Handlers(Contract, id) =>
            LET out == handleDecryptionTimeoutFn(Contract, now, caller, id)
            IN  /\ out.result \in Errors
                /\ out.state = Contract
                /\ (IsRevealRequested(Contract, id) /\ now >= Due(Contract, id))
                        => out.result = "NotCreatorOrChairperson"

C17_Witness ==
    \E id \in DOMAIN resolutions :
        /\ IsRevealRequested(Contract, id)
        /\ now >= Due(Contract, id)
        /\ resolutions[id].creator = 2
        /\ handleDecryptionTimeoutFn(Contract, now, 3, id).result
                = "NotCreatorOrChairperson"
        /\ handleDecryptionTimeoutFn(Contract, now, Gateway, id).result
                = "NotCreatorOrChairperson"

\* C18: a vote on a resolution that is not Active fails with
\* ResolutionNotActive, a vote at or after endTime on a resolution still
\* flagged active fails with VotingWindowClosed; either leaves the
\* accumulators, the vote records and the rest of the state unchanged.
C18_VoteRejected ==
    \A id \in DOMAIN resolutions : \A caller \in Addr : \A choice \in BOOLEAN :
        LET out == castVoteFn(Contract, now, caller, id, choice, TRUE)
            r == resolutions[id]
        IN  /\ ~IsActive(Contract, id) => out.result = "ResolutionNotActive"
            /\ (IsActive(Contract, id) /\ now >= r.endTime)
                    => out.result = "VotingWindowClosed"
            /\ (~IsActive(Contract, id) \/ now >= r.endTime) =>
                    /\ Accumulators(out.state, id) = Accumulators(Contract, id)
                    /\ out.state.ballots = ballots
                    /\ out.state = Contract

\* Resolution 1 was closed early by its creator and refuses a vote within its
\* window; resolution 0 is still flagged active past its endTime and refuses
\* the new vote of member 2, who voted on it before.
C18_Witness ==
    /\ resolutionCount = 2
    /\ IsRevealRequested(Contract, 1) /\ now < resolutions[1].endTime
    /\ castVoteFn(Contract, now, 2, 1, TRUE, TRUE).result = "ResolutionNotActive"
    /\ IsActive(Contract, 0) /\ now >= resolutions[0].endTime
    /\ hasVoted(Contract, 0, 2)
    /\ castVoteFn(Contract, now, 2, 0, FALSE, TRUE).result = "VotingWindowClosed"

\* ------------------------------------------------------ opening, checked
\* The total voting power the opening by caller is checked against: the caller
\* registers itself first when it is a first-time actor.
PowerAtOpening(c, caller) == ensureMember(c, caller).totalVotingPower

IsMemberAtOpening(c, caller) == ensureMember(c, caller).boardMembers[caller].isActive

Lengths == {MIN_LENGTH - 1, MIN_LENGTH, MAX_LENGTH, MAX_LENGTH + 1}

C20_Opening ==
    \A caller \in Addr : \A titleLen \in Lengths, descriptionLen \in Lengths :
    \A quorum \in {0, 1, PowerAtOpening(Contract, caller)} :
        LET out == createResolutionFn(Contract, now, caller, titleLen,
                                      descriptionLen, quorum)
            id == resolutionCount
        IN  /\ ~(titleLen \in MIN_LENGTH..MAX_LENGTH
                 /\ descriptionLen \in MIN_LENGTH..MAX_LENGTH)
                    => out.result = "InvalidStringLength"
            /\ quorum <= 0 => out.result \in Errors
            /\ (/\ quorum <= 0
                /\ titleLen \in MIN_LENGTH..MAX_LENGTH
                /\ descriptionLen \in MIN_LENGTH..MAX_LENGTH
                /\ IsMemberAtOpening(Contract, caller)) => out.result = "QuorumZero"
            /\ out.result # "ok" => out.state = Contract
            /\ out.result = "ok" =>
                /\ out.state.resolutionCount = resolutionCount + 1
                /\ DOMAIN out.state.resolutions = DOMAIN resolutions \cup {id}
                /\ \A other \in DOMAIN resolutions :
                        out.state.resolutions[other] = resolutions[other]
                /\ IsActive(out.state, id)
                /\ LifecycleState(out.state.resolutions[id]) = "Active"
                /\ out.state.resolutions[id].creator = caller
                /\ out.state.boardMembers[caller].isActive
                /\ out.state.resolutions[id].startTime = now
                /\ out.state.resolutions[id].endTime = now + VOTING_DURATION
                /\ out.state.resolutions[id].requiredQuorum = quorum
                /\ quorum > 0
                /\ quorum <= out.state.totalVotingPower

\* A first-time actor opens a resolution, a day after deployment, with the
\* whole voting power as the quorum; the stored resolution has these fields.
C20_Witness ==
    /\ resolutionCount = 1
    /\ resolutions[0].creator = 3
    /\ resolutions[0].startTime = DECRYPTION_TIMEOUT
    /\ resolutions[0].endTime = DECRYPTION_TIMEOUT + VOTING_DURATION
    /\ resolutions[0].requiredQuorum = 2
    /\ totalVotingPower = 2
    /\ createResolutionFn(Contract, now, 3, MAX_LENGTH + 1, 1, 1).result
            = "InvalidStringLength"
    /\ createResolutionFn(Contract, now, 3, 1, 1, 0).result = "QuorumZero"
    /\ createResolutionFn(Contract, now, 4, 1, 1, 3).result = "ok"

\* ------------------------------------------------- the registry, checked
\* The identities a call may name: the zero address, the addresses, the
\* Gateway.
Identities == {ZeroAddress} \cup Addr \cup {Gateway}

\* C21: registering the zero address fails with InvalidAddress, a voting power
\* outside 1..1000 with InvalidWeight (0 and 1001 are rejected, 1 and 1000
\* accepted), an identity that is registered and active with DuplicateMember;
\* a failure leaves the member records and totalVotingPower unchanged.
C21_RegisterErrors ==
    \A member \in {ZeroAddress} \cup Addr :
    \A power \in {0, 1, MAX_VOTING_POWER, MAX_VOTING_POWER + 1} :
        LET out == addBoardMemberFn(Contract, chairperson, member, 1, 1, power)
            inRange == power \in 1..MAX_VOTING_POWER
        IN  /\ member = ZeroAddress => out.result = "InvalidAddress"
            /\ (member # ZeroAddress /\ ~inRange) => out.result = "InvalidWeight"
            /\ (member # ZeroAddress /\ inRange /\ boardMembers[member].isActive)
                    => out.result = "DuplicateMember"
            /\ (member # ZeroAddress /\ inRange /\ ~boardMembers[member].isActive)
                    => /\ out.result = "ok"
                       /\ out.state.boardMembers[member]
                            = [isActive |-> TRUE, votingPower |-> power]
                       /\ out.state.totalVotingPower = totalVotingPower + power
            /\ out.result # "ok" =>
                    /\ out.result \in ValidationErrors
                    /\ out.state.boardMembers = boardMembers
                    /\ out.state.totalVotingPower = totalVotingPower
                    /\ out.state = Contract

\* Member 2 is active with the largest voting power, member 3 deactivated.
C21_Witness ==
    /\ boardMembers[2] = [isActive |-> TRUE, votingPower |-> MAX_VOTING_POWER]
    /\ boardMembers[3].votingPower = 1 /\ ~boardMembers[3].isActive
    /\ addBoardMemberFn(Contract, chairperson, 2, 1, 1, 1).result = "DuplicateMember"
    /\ addBoardMemberFn(Contract, chairperson, 3, 1, 1, 0).result = "InvalidWeight"
    /\ addBoardMemberFn(Contract, chairperson, 3, 1, 1, MAX_VOTING_POWER + 1).result
            = "InvalidWeight"
    /\ addBoardMemberFn(Contract, chairperson, 3, 1, 1, MAX_VOTING_POWER).result = "ok"
    /\ addBoardMemberFn(Contract, chairperson, ZeroAddress, 1, 1, 1).result
            = "InvalidAddress"

\* C22: a registration or a deactivation called by anyone but the chairperson
\* fails with an AuthorizationError whatever its arguments, and changes no
\* member record and not totalVotingPower.
C22_OnlyChairperson ==
    \A caller \in Identities \ {chairperson} : \A member \in Identities :
        /\ \A nameLen \in {0, 1}, power \in RegistryPowers :
            LET out == addBoardMemberFn(Contract, caller, member, nameLen, 1, power)
            IN  /\ out.result = "OnlyChairperson"
                /\ out.result \in AuthorizationErrors
                /\ out.state = Contract
        /\ LET out == removeBoardMemberFn(Contract, caller, member)
           IN  /\ out.result = "OnlyChairperson"
               /\ out.result \in AuthorizationErrors
               /\ out.state = Contract

\* Member 2, active, tries to register member 4 and to deactivate member 3,
\* both of which the chairperson could do.
C22_Witness ==
    /\ boardMembers[2].isActive /\ boardMembers[3].isActive
    /\ ~boardMembers[4].isActive
    /\ addBoardMemberFn(Contract, chairperson, 4, 1, 1, 1).result = "ok"
    /\ addBoardMemberFn(Contract, 2, 4, 1, 1, 1).result = "OnlyChairperson"
    /\ removeBoardMemberFn(Contract, chairperson, 3).result = "ok"
    /\ removeBoardMemberFn(Contract, 2, 3).result = "OnlyChairperson"

\* C23: deactivating an unknown identity fails with NotFound; deactivating an
\* active member keeps its record with its voting power, clears its active
\* flag, lowers totalVotingPower by that voting power and touches no other
\* record.
C23_Deactivate ==
    \A member \in Identities :
        LET out == removeBoardMemberFn(Contract, chairperson, member)
        IN  /\ ~IsKnown(Contract, member) =>
                    /\ out.result = "NotFound"
                    /\ out.result \in NotFoundErrors
                    /\ out.state = Contract
            /\ (member \in Addr /\ boardMembers[member].isActive) =>
                    /\ out.result = "ok"
                    /\ out.state.boardMembers[member]
                        = [isActive |-> FALSE,
                           votingPower |-> boardMembers[member].votingPower]
                    /\ IsKnown(out.state, member)
                    /\ out.state.totalVotingPower
                        = totalVotingPower - boardMembers[member].votingPower
                    /\ \A other \in Addr \ {member} :
                            out.state.boardMembers[other] = boardMembers[other]

\* Member 2 was deactivated: its record is kept with its voting power, which
\* the total no longer counts; member 4 is unknown.
C23_Witness ==
    /\ boardMembers[2] = [isActive |-> FALSE, votingPower |-> MAX_VOTING_POWER]
    /\ boardMembers[3] = [isActive |-> TRUE, votingPower |-> 1]
    /\ totalVotingPower = 2
    /\ removeBoardMemberFn(Contract, chairperson, 4).result = "NotFound"
    /\ removeBoardMemberFn(Contract, chairperson, 3).state.totalVotingPower = 1

\* C24: weightOf answers for every identity: the stored voting power, at least
\* 1, for an active member, and 0 for an unknown identity and for a
\* deactivated member; the total voting power is the sum of these answers.
C24_WeightOf ==
    /\ \A a \in Identities :
        /\ weightOf(Contract, a) \in 0..MAX_VOTING_POWER
        /\ (a \in Addr /\ boardMembers[a].isActive) =>
                /\ weightOf(Contract, a) = boardMembers[a].votingPower
                /\ weightOf(Contract, a) >= 1
        /\ ~IsKnown(Contract, a) => weightOf(Contract, a) = 0
        /\ (a \in Addr /\ ~boardMembers[a].isActive) => weightOf(Contract, a) = 0
    /\ getTotalVotingPower(Contract)
            = SumOver([a \in Addr |-> weightOf(Contract, a)], Addr)

\* A deactivated member with a stored voting power of 1000, an active member,
\* an unknown identity.
C24_Witness ==
    /\ boardMembers[2] = [isActive |-> FALSE, votingPower |-> MAX_VOTING_POWER]
    /\ weightOf(Contract, 2) = 0
    /\ boardMembers[3].isActive /\ weightOf(Contract, 3) = MAX_VOTING_POWER
    /\ ~IsKnown(Contract, 4) /\ weightOf(Contract, 4) = 0
    /\ weightOf(Contract, ZeroAddress) = 0 /\ weightOf(Contract, Gateway) = 0

\* ------------------------------------------------ frames and the guard
\* The times a call is tried at: the present and one timeout later.
Times == {now, now + DECRYPTION_TIMEOUT}

\* The results of the seven mutating entry points called on contract c, over
\* the callers and the arguments that separate their requirements; the
\* callers of an opening and of a vote are the addresses a member record can
\* be stored for.
Outputs(c) ==
    {addBoardMemberFn(c, caller, member, nameLen, 1, power) :
        caller \in {chairperson, 2}, member \in 0..3, nameLen \in {0, 1},
        power \in {0, 1}}
    \cup {removeBoardMemberFn(c, caller, member) :
        caller \in {chairperson, 2}, member \in Identities}
    \cup {createResolutionFn(c, now, caller, titleLen, 1, quorum) :
        caller \in Addr, titleLen \in {0, 1}, quorum \in 0..2}
    \cup {castVoteFn(c, now, caller, id, TRUE, proofOk) :
        caller \in Addr, id \in Ids, proofOk \in BOOLEAN}
    \cup {closeResolutionFn(c, now, caller, id) :
        caller \in Identities, id \in Ids}
    \cup {resolveResolutionFn(c, caller, requestId, 1, 0) :
        caller \in Identities, requestId \in RequestIds}
    \cup {handleDecryptionTimeoutFn(c, t, caller, id) :
        t \in Times, caller \in Identities, id \in Ids}

\* C25: a register, deactivate, open, vote, requestReveal, onRevealDelivered
\* or handleTimeout call that returns an error leaves the whole state as it
\* was: members, totalVotingPower, resolution count, lifecycle fields,
\* accumulators, vote records and the pending-request index.
C25_FailureChangesNothing ==
    \A out \in Outputs(Contract) :
        /\ out.result \in Errors \cup {"ok"}
        /\ out.result # "ok" =>
            /\ out.state.boardMembers = boardMembers
            /\ out.state.totalVotingPower = totalVotingPower
            /\ out.state.resolutionCount = resolutionCount
            /\ out.state.resolutions = resolutions
            /\ out.state.ballots = ballots
            /\ out.state.resolutionIdByRequestId = resolutionIdByRequestId
            /\ out.state = Contract

\* Identity 3 is unknown: its opening with quorum 0 fails after its
\* self-registration, its vote with a bad proof on the Active resolution 1
\* likewise; resolution 0 is resolved and rejects a close and a timeout.
C25_Witness ==
    /\ ~IsKnown(Contract, 3)
    /\ createResolutionFn(Contract, now, 3, 1, 1, 0).result = "QuorumZero"
    /\ resolutionCount = 2
    /\ IsResolved(Contract, 0) /\ IsActive(Contract, 1)
    /\ now < resolutions[1].endTime
    /\ castVoteFn(Contract, now, 3, 1, TRUE, FALSE).result = "InvalidProof"
    /\ castVoteFn(Contract, now, 3, 1, TRUE, TRUE).result = "ok"
    /\ closeResolutionFn(Contract, now, chairperson, 0).result # "ok"
    /\ handleDecryptionTimeoutFn(Contract, now, chairperson, 0).result
            = "AlreadyResolved"

C27_Numbered ==
    /\ resolutionCount \in Nat
    /\ DOMAIN resolutions = 0..(resolutionCount - 1)
    /\ \A id \in DOMAIN resolutions : resolutions[id].id = id
    /\ \A caller \in Addr, titleLen \in {0, 1}, quorum \in 0..2 :
        LET out == createResolutionFn(Contract, now, caller, titleLen, 1, quorum)
        IN  IF out.result = "ok"
            THEN /\ out.state.resolutionCount = resolutionCount + 1
                 /\ DOMAIN out.state.resolutions
                        = DOMAIN resolutions \cup {resolutionCount}
                 /\ out.state.resolutions[resolutionCount].id = resolutionCount
                 /\ out.state.resolutions[resolutionCount].creator = caller
                 /\ \A id \in DOMAIN resolutions :
                        out.state.resolutions[id] = resolutions[id]
            ELSE /\ out.state.resolutionCount = resolutionCount
                 /\ out.state.resolutions = resolutions

C27_Step ==
    /\ resolutionCount' \in {resolutionCount, resolutionCount + 1}
    /\ DOMAIN resolutions \subseteq DOMAIN resolutions'
    /\ \A id \in DOMAIN resolutions :
        /\ resolutions'[id].id = resolutions[id].id
        /\ resolutions'[id].creator = resolutions[id].creator
        /\ resolutions'[id].startTime = resolutions[id].startTime
    /\ resolutionCount' = resolutionCount =>
            DOMAIN resolutions' = DOMAIN resolutions
    /\ resolutionCount' = resolutionCount + 1 =>
            DOMAIN resolutions' = DOMAIN resolutions \cup {resolutionCount}

C27_SequentialIds == [](C27_Numbered) /\ [][C27_Step]_vars

\* The second successful opening, by another creator and later than the
\* first, got identifier 1.
C27_Witness ==
    /\ resolutionCount = 2
    /\ resolutions[0].id = 0 /\ resolutions[1].id = 1
    /\ resolutions[0].creator # resolutions[1].creator
    /\ resolutions[0].startTime < resolutions[1].startTime
    /\ createResolutionFn(Contract, now, chairperson, 0, 1, 1).result
            = "InvalidStringLength"

\* ----------------------------------------------------------- second votes
\* The members who may vote on resolution id now and already did.
Revoters(id) ==
    {a \in Addr : /\ ballots[id][a].cast
                  /\ boardMembers[a].isActive
                  /\ IsActive(Contract, id)
                  /\ now < resolutions[id].endTime}

C29_TimeoutNeedsRequest ==
    \A id \in DOMAIN resolutions :
        ~resolutions[id].decryptionRequested =>
            /\ IsActive(Contract, id)
            /\ resolutions[id].decryptionRequestTime = 0
            /\ \A caller \in Identities :
               \A t \in Times \cup {DECRYPTION_TIMEOUT, 2 * VOTING_DURATION} :
                LET out == handleDecryptionTimeoutFn(Contract, t, caller, id)
                IN  /\ out.result \in Errors
                    /\ out.result = "DecryptionNotRequested"
                    /\ out.state = Contract
                    /\ ~out.state.resolutions[id].resolved

\* Resolution 0 is Active a voting period after its opening: the time
\* comparison alone would let its creator and the chairperson through.
C29_Witness ==
    /\ resolutionCount >= 1 /\ IsActive(Contract, 0)
    /\ now >= DECRYPTION_TIMEOUT
    /\ TimeoutReached(resolutions[0], now)
    /\ MayHandleTimeout(resolutions[0], chairperson)
    /\ handleDecryptionTimeoutFn(Contract, now, chairperson, 0).result
            = "DecryptionNotRequested"
    /\ handleDecryptionTimeoutFn(Contract, now, resolutions[0].creator, 0).result
            = "DecryptionNotRequested"

\* ------------------------------------------------------- revealed values
\* C30: an unresolved resolution has revealedYesVotes = revealedNoVotes = 0
\* and nothing records a failure for it; the revealed values are written only
\* by the transition that sets resolved.
C30_Unrevealed ==
    \A id \in DOMAIN resolutions :
        ~resolutions[id].resolved =>
            /\ resolutions[id].revealedYesVotes = 0
            /\ resolutions[id].revealedNoVotes = 0
            /\ finalizedBy[id] = "none"

C30_Step ==
    \A id \in DOMAIN resolutions :
        (\/ resolutions'[id].revealedYesVotes # resolutions[id].revealedYesVotes
         \/ resolutions'[id].revealedNoVotes # resolutions[id].revealedNoVotes
         \/ finalizedBy'[id] # finalizedBy[id])
            => ~resolutions[id].resolved /\ resolutions'[id].resolved

C30_RevealedOnlyWhenResolved == [](C30_Unrevealed) /\ [][C30_Step]_vars

\* Resolution 0 awaits its reveal with a vote in its accumulators and nothing
\* revealed; resolution 1 is resolved with its revealed vote.
C30_Witness ==
    /\ resolutionCount = 2
    /\ IsRevealRequested(Contract, 0)
    /\ resolutions[0].yesVotes + resolutions[0].noVotes > 0
    /\ resolutions[0].revealedYesVotes = 0 /\ resolutions[0].revealedNoVotes = 0
    /\ IsResolved(Contract, 1) /\ finalizedBy[1] = "callback"
    /\ resolutions[1].revealedYesVotes + resolutions[1].revealedNoVotes > 0

\* ------------------------------------------------ the tally after the close
\* The pair of accumulators the Gateway was sent for resolution id.
Submitted(c, id) == Decryption(c, c.resolutions[id].decryptionRequestId)

\* C31: once closeResolution has succeeded on a resolution, the pair sent to
\* the Gateway is the pair of its accumulators, and no call of any function
\* changes its accumulators or its members' vote records afterwards.
C31_Frozen ==
    \A id \in DOMAIN resolutions :
        resolutions[id].decryptionRequested =>
            /\ Submitted(Contract, id) = Accumulators(Contract, id)
            /\ \A out \in Outputs(Contract)
                    \cup {castVoteFn(Contract, now, caller, id, choice, TRUE) :
                            caller \in Addr, choice \in BOOLEAN} :
                /\ Accumulators(out.state, id) = Accumulators(Contract, id)
                /\ out.state.ballots[id] = ballots[id]

C31_Step ==
    \A id \in DOMAIN resolutions :
        resolutions[id].decryptionRequested =>
            /\ resolutions'[id].yesVotes = resolutions[id].yesVotes
            /\ resolutions'[id].noVotes = resolutions[id].noVotes
            /\ ballots'[id] = ballots[id]

C31_TallyFinalAtRequest == [](C31_Frozen) /\ [][C31_Step]_vars

\* Resolution 0 was closed by its creator inside its voting period with a
\* vote counted; member 2, who cast it, tries to vote again.
C31_Witness ==
    /\ resolutionCount >= 1 /\ IsRevealRequested(Contract, 0)
    /\ now < resolutions[0].endTime
    /\ ballots[0][2].cast /\ boardMembers[2].isActive
    /\ Accumulators(Contract, 0) = <<1, 0>>
    /\ Submitted(Contract, 0) = <<1, 0>>
    /\ castVoteFn(Contract, now, 2, 0, FALSE, TRUE).result = "ResolutionNotActive"

\* --------------------------------------------------------- reactivation
\* C32: addBoardMember by the chairperson on an identity that is registered
\* and inactive does not fail with DuplicateMember: the member is active again
\* with the voting power supplied, and totalVotingPower rises by exactly that
\* voting power, the one stored before not being counted again.
C32_Reactivation ==
    \A member \in Addr : \A power \in {1, MAX_VOTING_POWER} :
        (IsKnown(Contract, member) /\ ~boardMembers[member].isActive) =>
            LET out == addBoardMemberFn(Contract, chairperson, member, 1, 1, power)
            IN  /\ out.result # "DuplicateMember"
                /\ out.result = "ok"
                /\ out.state.boardMembers[member]
                    = [isActive |-> TRUE, votingPower |-> power]
                /\ out.state.totalVotingPower = totalVotingPower + power
                /\ out.state.totalVotingPower
                    = SumOver(PowerOf(out.state), ActiveMembers(out.state))
                /\ \A other \in Addr \ {member} :
                    out.state.boardMembers[other] = boardMembers[other]

\* Member 2 was registered with voting power 1000 and deactivated; member 3
\* is active: registering member 2 with voting power 1 gives a total of 3.
C32_Witness ==
    /\ boardMembers[2] = [isActive |-> FALSE, votingPower |-> MAX_VOTING_POWER]
    /\ boardMembers[3] = [isActive |-> TRUE, votingPower |-> 1]
    /\ totalVotingPower = 2
    /\ addBoardMemberFn(Contract, chairperson, 2, 1, 1, 1).result = "ok"
    /\ addBoardMemberFn(Contract, chairperson, 2, 1, 1, 1).state.totalVotingPower = 3

StoredSums(c, id) ==
    <<SumOver([a \in Addr |-> c.ballots[id][a].yes], Addr),
      SumOver([a \in Addr |-> c.ballots[id][a].no], Addr)>>

Max(x, y) == IF x >= y THEN x ELSE y

\* C36: getResolutionStatus answers for every existing resolution at every
\* time; while the reveal is requested and the resolution unresolved its
\* timeUntilTimeout is max(0, decryptionRequestTime + DECRYPTION_TIMEOUT - now),
\* 0 and not negative once the timeout has elapsed, and the time requirement
\* of handleDecryptionTimeout is met exactly when it is 0.
C36_Status ==
    \A id \in DOMAIN resolutions :
    \A t \in Times \cup {now + VOTING_DURATION} :
        LET status == getResolutionStatus(Contract, t, id)
            r == resolutions[id]
        IN  /\ status.decryptionRequested = r.decryptionRequested
            /\ status.decryptionRequestTime = r.decryptionRequestTime
            /\ status.resolved = r.resolved
            /\ status.timeUntilTimeout \in Nat
            /\ IsRevealRequested(Contract, id) =>
                /\ status.timeUntilTimeout = Max(0, Due(Contract, id) - t)
                /\ status.timeUntilTimeout = 0 <=> TimeoutReached(r, t)
                /\ status.timeUntilTimeout = 0
                    <=> handleDecryptionTimeoutFn(Contract, t, chairperson, id).result
                            = "ok"

\* Resolution 0 was closed a day after deployment and is six days overdue:
\* nothing remains, and one day earlier a whole day remained at the close.
C36_Witness ==
    /\ resolutionCount >= 1 /\ IsRevealRequested(Contract, 0)
    /\ resolutions[0].decryptionRequestTime = DECRYPTION_TIMEOUT
    /\ now = DECRYPTION_TIMEOUT + VOTING_DURATION
    /\ now > Due(Contract, 0)
    /\ getResolutionStatus(Contract, now, 0).timeUntilTimeout = 0
    /\ getResolutionStatus(Contract, DECRYPTION_TIMEOUT, 0).timeUntilTimeout
            = DECRYPTION_TIMEOUT
    /\ handleDecryptionTimeoutFn(Contract, now, chairperson, 0).result = "ok"

\* ------------------------------------------------- resolutions side by side
\* What the contract stores for resolution id: its fields, its members' vote
\* records, how it was finalized, its pending requests.
Footprint(c, id) ==
    [resolution |-> c.resolutions[id],
     ballots |-> c.ballots[id],
     finalizedBy |-> c.finalizedBy[id],
     pending |-> PendingOf(c, id)]

\* The results of the calls addressed to resolution id: votes, closes,
\* deliveries through its request ids, timeouts.
OutputsOn(c, id) ==
    {castVoteFn(c, now, caller, id, choice, TRUE) :
        caller \in Addr, choice \in BOOLEAN}
    \cup {closeResolutionFn(c, now, caller, id) : caller \in Identities}
    \cup {resolveResolutionFn(c, Gateway, requestId, pair[1], pair[2]) :
        requestId \in PendingOf(c, id), pair \in {<<0, 0>>, <<2, 1>>}}
    \cup {handleDecryptionTimeoutFn(c, t, caller, id) :
        t \in Times, caller \in Identities}

\* C37: with several resolutions, a vote, a close, a delivery through its
\* request id or a timeout addressed to one resolution leaves the fields,
\* accumulators, vote records and pending request of every other resolution
\* as they were.
C37_OthersUntouched ==
    \A id \in DOMAIN resolutions : \A other \in DOMAIN resolutions \ {id} :
        /\ PendingOf(Contract, id) \cap PendingOf(Contract, other) = {}
        /\ \A out \in OutputsOn(Contract, id) :
                Footprint(out.state, other) = Footprint(Contract, other)

\* Both resolutions had their reveal requested, each with its own request id
\* and its own accumulators; resolution 1 was resolved by its delivery while
\* resolution 0 still waits, and a delivery for it would succeed.
C37_Witness ==
    /\ resolutionCount = 2
    /\ IsRevealRequested(Contract, 0)
    /\ IsResolved(Contract, 1) /\ finalizedBy[1] = "callback"
    /\ Accumulators(Contract, 0) # Accumulators(Contract, 1)
    /\ resolutions[0].decryptionRequestId # resolutions[1].decryptionRequestId
    /\ resolveResolutionFn(Contract, Gateway, resolutions[0].decryptionRequestId,
                           1, 0).result = "ok"

\* ---------------------------------------------------------- FhevmClient
\* The contract is left alone by the SDK's steps.
ContractUnchanged ==
    UNCHANGED <<boardMembers, totalVotingPower, resolutionCount, resolutions,
                ballots, resolutionIdByRequestId, gatewayRequests, locked,
                finalizedBy, now, twin, unvoted>>

\* init() is called: it returns at once on an initialized client, and
\* otherwise awaits initFhevm().
InitCalled(k) ==
    /\ fhevmClient.calls[k].pc = "idle"
    /\ fhevmClient' = [fhevmClient EXCEPT !.calls[k].pc =
            IF fhevmClient.initialized THEN "returned" ELSE "initFhevm"]
    /\ ContractUnchanged /\ UNCHANGED fhevmProvider

\* initFhevm() has resolved: the call goes on to createInstance(...) and
\* awaits it.
InitFhevmResolved(k) ==
    /\ fhevmClient.calls[k].pc = "initFhevm"
    /\ fhevmClient' = [fhevmClient EXCEPT
            !.created = @ + 1,
            !.calls[k] = [pc |-> "createInstance", made |-> fhevmClient.created + 1]]
    /\ ContractUnchanged /\ UNCHANGED fhevmProvider

\* createInstance(...) has resolved: the instance is stored and the client is
\* initialized.
CreateInstanceResolved(k) ==
    /\ fhevmClient.calls[k].pc = "createInstance"
    /\ fhevmClient' = [fhevmClient EXCEPT
            !.instance = fhevmClient.calls[k].made,
            !.initialized = TRUE,
            !.calls[k].pc = "returned"]
    /\ ContractUnchanged /\ UNCHANGED fhevmProvider

\* initFhevm() or createInstance(...) has rejected: init() throws.
InitRejected(k) ==
    /\ fhevmClient.calls[k].pc \in {"initFhevm", "createInstance"}
    /\ fhevmClient' = [fhevmClient EXCEPT !.calls[k].pc = "thrown"]
    /\ ContractUnchanged /\ UNCHANGED fhevmProvider

NextClient ==
    \/ \E k \in 1..MaxInitCalls : InitCalled(k)
    \/ \E k \in 1..MaxInitCalls : InitFhevmResolved(k)
    \/ \E k \in 1..MaxInitCalls : CreateInstanceResolved(k)
    \/ \E k \in 1..MaxInitCalls : InitRejected(k)

SpecClient == Init /\ [][NextClient]_vars

\* C38: FhevmClient.init creates the FHE instance at most once per client: a
\* call after a completed init returns without initializing again, and two
\* calls that overlap do not both call createInstance.
C38_InitOnce ==
    /\ fhevmClient.created <= 1
    /\ \A k \in 1..MaxInitCalls :
        fhevmClient.calls[k].pc = "returned" =>
            fhevmClient.initialized /\ fhevmClient.instance # Null

\* -------------------------------------------------------- FhevmProvider
\* The cleanup of the running effect: mounted = false.
Cleanup(effects) == [effects EXCEPT ![Len(effects)].mounted = FALSE]

\* The config prop has changed: the effect of the old config is cleaned up
\* and the effect runs for the new one; the state is kept.
ConfigChanged ==
    /\ fhevmProvider.rendered
    /\ fhevmProvider.config < MaxConfigs
    /\ fhevmProvider' = [fhevmProvider EXCEPT
            !.config = @ + 1,
            !.effects = Append(Cleanup(@), NewEffect(fhevmProvider.config + 1))]
    /\ ContractUnchanged /\ UNCHANGED fhevmClient

\* The provider unmounts: the running effect is cleaned up.
Unmount ==
    /\ fhevmProvider.rendered
    /\ fhevmProvider' = [fhevmProvider EXCEPT
            !.rendered = FALSE,
            !.effects = Cleanup(@)]
    /\ ContractUnchanged /\ UNCHANGED fhevmClient

\* Whether an update by effect i comes from an initialization other than the
\* one of the present config of a rendered provider.
IsStale(i) ==
    \/ ~fhevmProvider.rendered
    \/ fhevmProvider.effects[i].config # fhevmProvider.config

\* fhevmClient.init() of effect i has resolved: if (mounted) the client, the
\* instance and isInitialized are set.
InitializeResolved(i) ==
    /\ i \in DOMAIN fhevmProvider.effects
    /\ fhevmProvider.effects[i].pc = "init"
    /\ fhevmProvider' =
        IF fhevmProvider.effects[i].mounted
        THEN [fhevmProvider EXCEPT
                !.client = fhevmProvider.effects[i].config,
                !.instance = fhevmProvider.effects[i].config,
                !.isInitialized = TRUE,
                !.staleUpdate = @ \/ IsStale(i),
                !.effects[i].pc = "done"]
        ELSE [fhevmProvider EXCEPT !.effects[i].pc = "done"]
    /\ ContractUnchanged /\ UNCHANGED fhevmClient

\* fhevmClient.init() of effect i has thrown: if (mounted) the error is set.
InitializeRejected(i) ==
    /\ i \in DOMAIN fhevmProvider.effects
    /\ fhevmProvider.effects[i].pc = "init"
    /\ fhevmProvider' =
        IF fhevmProvider.effects[i].mounted
        THEN [fhevmProvider EXCEPT
                !.error = fhevmProvider.effects[i].config,
                !.staleUpdate = @ \/ IsStale(i),
                !.effects[i].pc = "done"]
        ELSE [fhevmProvider EXCEPT !.effects[i].pc = "done"]
    /\ ContractUnchanged /\ UNCHANGED fhevmClient

NextProvider ==
    \/ ConfigChanged
    \/ Unmount
    \/ \E i \in 1..MaxConfigs : InitializeResolved(i)
    \/ \E i \in 1..MaxConfigs : InitializeRejected(i)

SpecProvider == Init /\ [][NextProvider]_vars

\* The context value: { client, instance, isInitialized, error }.
FhevmContext ==
    [client |-> fhevmProvider.client,
     instance |-> fhevmProvider.instance,
     isInitialized |-> fhevmProvider.isInitialized,
     error |-> fhevmProvider.error]

\* The part of C39 that the mounted flag gives: no update by an initialization
\* of an earlier config or of an unmounted provider.
C39_NoStaleUpdate == ~fhevmProvider.staleUpdate

\* C39: the context of FhevmProvider reflects the initialization of the most
\* recent config only: an initialization that is pending when the config
\* changes or the provider unmounts never updates the state, and the context
\* never has isInitialized = true together with an error.
C39_LatestConfigOnly ==
    /\ C39_NoStaleUpdate
    /\ ~(FhevmContext.isInitialized /\ FhevmContext.error # Null)

====
